---- MODULE Spec2Model ----
(***************************************************************************)
(* A model of the enumeration engine of amass: the residual filter and the *)
(* name managers (enum/enum.go, enum/names.go), the DNS service, and the   *)
(* base resolver with its exchange-state manager (package resolvers).      *)
(* Each subsystem has its own specification over the shared variables.     *)
(***************************************************************************)
EXTENDS Integers, Sequences, FiniteSets, TLC

VARIABLES
    \* ---- enum.Enumeration / NameManager / SubdomainManager ----
    resFilter,        \* Enumeration.resFilter: the keys recorded in the filter
    resFilterCount,   \* Enumeration.resFilterCount
    filterMaxSize,    \* the package variable filterMaxSize
    altSourcesQueue,  \* Enumeration.altSourcesQueue
    nmQueue,          \* NameManager.queue
    smQueue,          \* SubdomainManager.queue
    rqueue,           \* SubdomainManager.rqueue
    subqueue,         \* SubdomainManager.subqueue
    subdomains,       \* timesManager: map suffix -> times seen
    timesChan,        \* SubdomainManager.timesChan, as checkSubdomain fills it
    ctimes,           \* the count timesForSubdomain has returned to each call
    discovered,       \* the publications of checkSubdomain on SubDiscoveredTopic
    nmStopped,        \* NameManager.Stop has been called
    cpc,              \* position of each InputName callback / checkSubdomain goroutine
    creq,             \* the request each callback works on
    cfrom,            \* which manager each callback entered ("name" or "sub")
    output,           \* concatenation of the results of all OutputNames calls
    subs,             \* history: who has delivered each name, and with which tags
    hist,             \* history of the residual filter: decisions of the current epoch
    \* ---- DNSService and the wildcard detector of the ResolverPool ----
    dnsActive,        \* cfg.Active, as the DNS service reads it
    xpc,              \* position of the attemptZoneXFR goroutine of each call
    xsub,             \* attemptZoneXFR: the subdomain whose zone is asked for
    xleft,            \* attemptZoneXFR: the names of the transfer still to be handed on
    wildcards,        \* manageWildcards: the map suffix -> wildcard entry
    dpc,              \* position of each processDNSRequest / processSubdomain goroutine
    dreq,             \* the request each goroutine works on
    dret,             \* hasWildcard: the place each goroutine returns the verdict to
    hwIdx,            \* hasWildcard: the loop index i of each goroutine
    published,        \* the requests published on the NameResolved topic
    danswers,         \* subdomainQueries: whether the queries up to NS gave an answer
    hw,               \* the request and the verdict of the call of hasWildcard in this step
    \* ---- BaseResolver and its state managers ----
    stopped,          \* manageResolverState: stopped
    stopSent,         \* the messages waiting on stateChannels.StopResolver
    stpc,             \* position of each call of Stop
    resPanic,         \* xchgsChannels.Done was closed a second time: the program has panicked
    xchgDone,         \* xchgsChannels.Done has been closed
    mgrAlive,         \* manageXchgState has not returned
    xchgQueues,       \* BaseResolver.xchgQueues, one queue per priority
    rpc,              \* position of each Resolve call
    rprio,            \* Resolve: the priority of a call between Available and the append
    lres,             \* the results returned to Resolve calls in this step
    nres,             \* number of results sent on the Result channel of each request
    spc,              \* sendQueries / writeMessage: position
    sreq,             \* writeMessage: the request being written
    sid,              \* writeMessage: the ID obtained from getID
    xchgs,            \* manageXchgState: the map ID -> request in flight
    timeouts,         \* manageXchgState: the set of IDs with a timeout registration
    chAddRequest,     \* xchgsChannels.AddRequest
    chAddTimeout,     \* xchgsChannels.AddTimeout
    chDelTimeout,     \* xchgsChannels.DelTimeout
    wire,             \* per request: its query on the network
    wid,              \* per request: the ID its query was written with
    pmpc,             \* position of the processMessage goroutine of each reply
    pmreq,            \* processMessage: the request pulled from the map
    swpc,             \* checkForTimeouts: position
    swIds,            \* checkForTimeouts: the IDs of allTimeoutIDs still to be visited
    \* ---- ResolverPool.Resolve ----
    poolStopped,      \* the resolvers of the pool that are stopped
    rpResolvers,      \* ResolverPool.Resolvers
    poolCur,          \* the resolver NextResolver returned to the call
    poolPc,           \* position of the call of ResolverPool.Resolve
    poolPriority,     \* the priority of the call
    poolAttempts,     \* the local variable attempts
    poolCount,        \* the loop variable count
    poolLast,         \* history: what the last call of r.Resolve returned
    poolRes,          \* what the call returned
    ctxCancelled,     \* the context of the call has been cancelled
    poolLate,         \* history: the call ran r.Resolve after the cancellation
    semSize,          \* size of the global DNS-query semaphore
    semPermits,       \* permits of the semaphore that are free
    semPc,            \* position of each goroutine holding a permit
    semKind,          \* what each goroutine that has not returned was started for
    semReleased,      \* history: number of Release calls of each goroutine
    rdPc,             \* position of reverseDNSSweep
    rdIps,            \* the addresses of the sweep
    rdIdx,            \* the loop position of the sweep
    sweepFilter,       \* the addresses the sweep filter has seen
    addrRevFilter,    \* AddressManager.revFilter: the addresses InputAddress has seen
    addrResFilter,    \* AddressManager.resFilter: the addresses addResolvedAddr has seen
    asnLookup,        \* the messages of the goroutines that send on AddressManager.asnLookup
    asnCur,           \* lookupASNInfo: msg, while addToCachePlusDatabase runs
    busMax,          \* the size given to NewEventBus
    busPermits,      \* permits of the bus semaphore that are free
    busDone,         \* the done channel is closed
    chSubscribe,     \* the channel Subscribe
    chUnsubscribe,   \* the channel Unsubscribe
    busQueues,       \* the three queues of pending publications
    busTopics,       \* the dispatcher's map from topic to callbacks
    bpc,             \* position of processRequests
    bp,              \* the band the scan is at
    bcur,            \* the publication being dispatched
    bcbs,            \* the callbacks still to be started for it
    curIdx,          \* index of the last delay slept
    busExec,         \* how many executions of each callback are running, by lateness
    busPubs,         \* number of Publish calls made
    busSubs,         \* number of Subscribe calls made
    busUnsubs,        \* number of Unsubscribe calls made
    wcMap,           \* the map wildcards of manageWildcards
    chWildcardReq,   \* the channel WildcardReq
    chTestResult,    \* the channel TestResult
    resend,          \* the requests held by resendWildcardReq goroutines
    fpc,             \* position of each call of fetchWildcardType
    fsub,            \* the suffix each call asks about
    fans,            \* the entry each call received
    wtPc,            \* position of the wildcard test of each suffix
    wcTests,         \* history: number of wildcard tests started for each suffix
    wtLast,           \* the probes and the result of the test that ended in this step
    domSrcs,         \* len(e.srcs), the number of data sources
    domHasDns,       \* e.dnsMgr != nil (not passive mode)
    domQueue,        \* DomainManager.queue, the domains of the queued requests
    domFilter,       \* DomainManager.filter
    curDomain,       \* DomainManager.curDomain
    srcIndex,        \* DomainManager.srcIndex
    domRecent,       \* DomainManager.last is less than 5 seconds old
    domPanic,        \* OutputRequests has panicked on an index out of range
    domStopped,      \* Stop has run (deferred by Enumeration.Start)
    domInputs,       \* history: the domains of the requests InputName was given
    domReleased,     \* history: the (domain, source index) pairs released
    domOuts,          \* history: the number of OutputRequests calls
    enPassive,       \* Config.Passive
    enMaxDNS,        \* Config.MaxDNSQueries
    enPc,            \* Enumeration.Start: before the loop, in the loop, returned
    enEnded,         \* how the loop was left
    enDone,          \* e.done is closed
    enNameQ,         \* length of NameManager.queue
    enSubQ,          \* length of SubdomainManager.queue
    enSubReqQ,       \* length of SubdomainManager.subqueue
    enSubRQ,         \* length of SubdomainManager.rqueue
    enAddrQ,         \* length of AddressManager.resQueue and revQueue together
    enDnsLen,        \* dnsMgr.RequestLen()
    enDataLen,       \* dataMgr.RequestLen()
    enRecent,        \* the last activity is at most 10 seconds old
    completed,       \* Start: the local completed
    enStep,          \* "t" when this step is a decision of the timer t
    enUse,           \* the locals of the running call of useManagers
    enMin,            \* the figures of the per-minute check in this step
    sqQueues,        \* number of requests in each of the xchgQueues
    sqDone,          \* r.Done is closed
    sqPc,            \* sendQueries: at the select, in a pass, returned
    sqBand,          \* sendQueries: the loop variable p
    sqCount,         \* sendQueries: the loop variable count
    sqSent,          \* sendQueries: the local sent
    sqCurIdx,        \* sendQueries: the local curIdx
    sqAppended,      \* history: number of requests queued so far
    sqWrote,         \* the queue a request was written from in this step
    sqRun,           \* history: number of passes in a row that sent nothing (7 for more)
    sqSlept,          \* the milliseconds slept in this step
    busSlept,        \* history: the milliseconds of the last sleep since the last dequeue, 0 without one
    busRun,           \* history: number of scans that found nothing since the last dequeue (7 for more)
    tmPc,            \* position of each checkSubdomain goroutine in timesForSubdomain
    tmSub,           \* the suffix each goroutine asks about
    tmGot,           \* the value each goroutine received
    tmChan,          \* SubdomainManager.timesChan, the goroutines whose request waits
    tmMap,           \* timesManager: the map subdomains
    tmDone,          \* SubdomainManager.done is closed
    tmAlive,         \* timesManager has not returned
    tmPanic,         \* done was closed a second time: the program has panicked
    tmHist,          \* history: the values timesManager sent back for each suffix, in order
    tmProbes,         \* history: number of processSubdomain goroutines started for each suffix
    dupQueue,        \* Enumeration.altSourcesQueue as processDupNames sees it
    dupPending,      \* processDupNames: the local pending
    dupNow,          \* the time, in seconds
    dupGraph,        \* the names that exist as FQDN nodes in the graph
    dupPc,           \* processDupNames: in its loop, inside a tick, or returned
    dupN,            \* processDupNames, case <-t.C: n, the time the tick read
    dupCount,        \* processDupNames, case <-t.C: count
    dupClosed,       \* e.done is closed
    dupNextId,       \* history: number of requests rejected so far
    dupHandled,       \* history: the entries the ticks have removed from pending, in order
    rotCurrent,      \* periodicRotations: the socket current, 0 for nil
    rotLast,         \* periodicRotations: the socket last, 0 for nil
    rotDialled,      \* number of sockets dialled so far; the sockets are numbered in this order
    rotClosed,       \* the sockets that periodicRotations has closed
    rotTokens,       \* number of messages waiting on the channel Rotate
    rotTicks,        \* history: number of ticks of the rotation ticker
    rotAlive,        \* periodicRotations has not returned
    rotDone,         \* r.Done is closed
    rotChCurrent,    \* the channel Current: the calls whose reply channel waits on it
    rotChLast,       \* the channel Last
    acPc,            \* position of each call of currentConnection or lastConnection
    acKind,          \* which of the two each call is
    acConn,          \* the socket each call was answered with, 0 for nil
    acLate,          \* history: what had closed the socket a call returned: no, rotation, done
    rotStep,          \* the rotation made in this step
    idMap,           \* the IDs with an entry in the map xchgs of manageXchgState
    idPc,            \* where the call of nextID is: idle, up (first loop), down (second loop), returned
    idStart,         \* the value of dns.Id() in the call of nextID
    idI,             \* the loop variable i of nextID
    idSteps,         \* the number of map lookups of the call of nextID
    idBefore,        \* the IDs with an entry when nextID was called
    idRet,            \* the ID that nextID returned
    dcZones,         \* for each name, the first piece of ns[0].Data of its NS answer, <<>> without an answer
    domainCache,     \* ResolverPool.domainCache, the domains found by SubdomainToDomain
    dcName,          \* the name of the last call of SubdomainToDomain
    dcRet,           \* the domain that the last call returned
    dcCached,         \* whether the last call returned from the first loop, the one over the cache
    sdChan,          \* the callbacks on the channel Subscribe, in the order of the calls
    sdTopics,        \* the callbacks of the topic in the map of processRequests
    sdQueues,        \* the publications waiting in the three queues
    sdPc,            \* where processRequests is: at its select, or in the default case
    sdReturned,      \* history: the callbacks whose call of Subscribe has returned
    sdGot,           \* history: for each callback the publications it was started for
    sdHandled,       \* history: the publications whose callbacks have all been started
    sdBand,          \* the queue the scan of the default case is at
    sdCur,           \* the publication taken from a queue, while its callbacks are started
    sdCbs,           \* the callbacks still to be started for it
    sdPermits,       \* permits of the semaphore eb.max that are free
    sdExec,          \* the number of execute goroutines that have not returned
    sdPubs,           \* the number of Publish calls made
    hdMethod,        \* the method that runs on the Collection: HostedDomains or ReverseWhois
    hdTimeout,       \* Config.Timeout is above 0
    hdActive,        \* Config.Active
    hdFired,         \* the function given to time.AfterFunc has run
    hdCloses,        \* the number of close calls on the channel Output
    hdLate,          \* a value was sent on Output after a close
    hdPanic,         \* the program has panicked
    hdMain,          \* where the method is: wait, sleep, returned; loop for ReverseWhois
    hdWorker,        \* where each call of investigateAddr is: reverse, cert, done
    hdFilter,        \* the domains that c.filter has seen
    hdSent           \* the number of values sent on Output

filterVars == <<resFilter, resFilterCount, filterMaxSize, altSourcesQueue, nmQueue, smQueue,
                rqueue, subqueue, subdomains, cpc, creq, cfrom, output, subs, hist,
                timesChan, ctimes, discovered, nmStopped>>

dnsVars == <<wildcards, dpc, dreq, dret, hwIdx, published, danswers, hw, dnsActive, xpc, xsub,
            xleft>>

resVars == <<stopped, stopSent, stpc, resPanic, xchgDone, mgrAlive, xchgQueues, rpc, rprio, lres, nres, spc, sreq,
             sid, xchgs, timeouts, chAddRequest, chAddTimeout, chDelTimeout, wire, wid,
             pmpc, pmreq, swpc, swIds>>

\* what the actions of one subsystem leave alone
poolVars == <<poolStopped, rpResolvers, poolCur, poolPc, poolPriority, poolAttempts, poolCount,
              poolLast, poolRes, ctxCancelled, poolLate>>

addrMgrVars == <<addrRevFilter, addrResFilter, asnLookup, asnCur>>

semVars == <<semSize, semPermits, semPc, semKind, semReleased, rdPc, rdIps, rdIdx,
             sweepFilter, addrMgrVars>>

enumButAddrQ == <<enPassive, enMaxDNS, enPc, enEnded, enDone, enNameQ, enSubQ, enSubReqQ,
                  enSubRQ, enDnsLen, enDataLen, enRecent, completed, enStep, enUse, enMin>>

busVars == <<busMax, busPermits, busDone, chSubscribe, chUnsubscribe, busQueues, busTopics,
              bpc, bp, bcur, bcbs, curIdx, busExec, busPubs, busSubs, busUnsubs>>

wcVars == <<wcMap, chWildcardReq, chTestResult, resend, fpc, fsub, fans, wtPc, wcTests,
             wtLast>>

domVars == <<domSrcs, domHasDns, domQueue, domFilter, curDomain, srcIndex, domRecent,
              domPanic, domStopped, domInputs, domReleased, domOuts>>

enumVars == <<enPassive, enMaxDNS, enPc, enEnded, enDone, enNameQ, enSubQ, enSubReqQ,
               enSubRQ, enAddrQ, enDnsLen, enDataLen, enRecent, completed, enStep, enUse,
               enMin>>

sqVars == <<sqQueues, sqDone, sqPc, sqBand, sqCount, sqSent, sqCurIdx, sqAppended, sqRun, sqWrote,
             sqSlept>>

backoffVars == <<busSlept, busRun>>

tmVars == <<tmPc, tmSub, tmGot, tmChan, tmMap, tmDone, tmAlive, tmHist, tmProbes, tmPanic>>

dupVars == <<dupQueue, dupPending, dupNow, dupGraph, dupPc, dupN, dupCount, dupClosed, dupNextId, dupHandled>>

rotVars == <<rotCurrent, rotLast, rotDialled, rotClosed, rotTokens, rotTicks, rotAlive,
              rotDone, rotChCurrent, rotChLast, acPc, acKind, acConn, acLate, rotStep>>

idVars == <<idMap, idPc, idStart, idI, idSteps, idBefore, idRet>>

dcVars == <<dcZones, domainCache, dcName, dcRet, dcCached>>

sdVars == <<sdChan, sdTopics, sdQueues, sdPc, sdReturned, sdGot, sdHandled, sdBand, sdCur,
            sdCbs, sdPermits, sdExec, sdPubs>>

hdVars == <<hdMethod, hdTimeout, hdActive, hdFired, hdCloses, hdLate, hdPanic, hdMain, hdWorker,
             hdFilter, hdSent>>

notFilterVars == <<dnsVars, resVars, poolVars, semVars, busVars, wcVars, domVars, enumVars, sqVars, backoffVars, tmVars, dupVars, rotVars, idVars, dcVars, sdVars, hdVars>>
\* the variables of the managers that only checkSubdomain and Stop write
subMgrVars == <<timesChan, ctimes, discovered, nmStopped>>

enumButDataLen == <<enPassive, enMaxDNS, enPc, enEnded, enDone, enNameQ, enSubQ, enSubReqQ,
                    enSubRQ, enAddrQ, enDnsLen, enRecent, completed, enStep, enUse, enMin>>

notFilterEnumVars == <<dnsVars, resVars, poolVars, semVars, busVars, wcVars, domVars, sqVars, backoffVars, tmVars, dupVars, rotVars, idVars, dcVars, sdVars, hdVars>>
notFilterTmVars == <<dnsVars, resVars, poolVars, semVars, busVars, wcVars, domVars, enumVars, sqVars, backoffVars, dupVars, rotVars, idVars, dcVars, sdVars, hdVars>>

\* the variables the DNS service leaves alone: every other part, and of the
\* DNS-query semaphore all but the permits
dnsOther == <<filterVars, resVars, poolVars, busVars, wcVars, domVars, enumVars, sqVars, backoffVars, tmVars, dupVars, rotVars, idVars, dcVars, sdVars, hdVars, semSize, semPc, semKind, semReleased, rdPc, rdIps, rdIdx, sweepFilter, addrMgrVars>>

\* what the steps of the DNS service outside subdomainQueries and
\* attemptZoneXFR leave alone
dnsFrame == <<dnsOther, dnsActive, xpc, xsub, xleft, danswers>>

notDnsVars == <<filterVars, resVars, poolVars, semVars, busVars, wcVars, domVars, enumVars, sqVars, backoffVars, tmVars, dupVars, rotVars, idVars, dcVars, sdVars, hdVars>>
notResVars == <<filterVars, dnsVars, poolVars, semVars, busVars, wcVars, domVars, enumVars, sqVars, backoffVars, tmVars, dupVars, rotVars, idVars, dcVars, sdVars, hdVars>>
notPoolVars == <<filterVars, dnsVars, resVars, semVars, busVars, wcVars, domVars, enumVars, sqVars, backoffVars, tmVars, dupVars, rotVars, idVars, dcVars, sdVars, hdVars>>
notSemVars == <<filterVars, dnsVars, resVars, poolVars, busVars, wcVars, domVars, enumVars, sqVars, backoffVars, tmVars, dupVars, rotVars, idVars, dcVars, sdVars, hdVars>>
notBusVars == <<filterVars, dnsVars, resVars, poolVars, semVars, wcVars, domVars, enumVars, sqVars, backoffVars, tmVars, dupVars, rotVars, idVars, dcVars, sdVars, hdVars>>
notWcVars == <<filterVars, dnsVars, resVars, poolVars, semVars, busVars, domVars, enumVars, sqVars, backoffVars, tmVars, dupVars, rotVars, idVars, dcVars, sdVars, hdVars>>
notDomVars == <<filterVars, dnsVars, resVars, poolVars, semVars, busVars, wcVars, enumVars, sqVars, backoffVars, tmVars, dupVars, rotVars, idVars, dcVars, sdVars, hdVars>>
notEnumVars == <<filterVars, dnsVars, resVars, poolVars, semVars, busVars, wcVars, domVars, sqVars, backoffVars, tmVars, dupVars, rotVars, idVars, dcVars, sdVars, hdVars>>
notSqVars == <<filterVars, dnsVars, resVars, poolVars, semVars, busVars, wcVars, domVars, enumVars, backoffVars, tmVars, dupVars, rotVars, idVars, dcVars, sdVars, hdVars>>
notBackoffVars == <<filterVars, dnsVars, resVars, poolVars, semVars, busVars, wcVars, domVars, enumVars, sqVars, tmVars, dupVars, rotVars, idVars, dcVars, sdVars, hdVars>>
notTmVars == <<filterVars, dnsVars, resVars, poolVars, semVars, busVars, wcVars, domVars, enumVars, sqVars, backoffVars, dupVars, rotVars, idVars, dcVars, sdVars, hdVars>>
notDupVars == <<filterVars, dnsVars, resVars, poolVars, semVars, busVars, wcVars, domVars, enumVars, sqVars, backoffVars, tmVars, rotVars, idVars, dcVars, sdVars, hdVars>>
notRotVars == <<filterVars, dnsVars, resVars, poolVars, semVars, busVars, wcVars, domVars, enumVars, sqVars, backoffVars, tmVars, dupVars, idVars, dcVars, sdVars, hdVars>>
notIdVars == <<filterVars, dnsVars, resVars, poolVars, semVars, busVars, wcVars, domVars, enumVars, sqVars, backoffVars, tmVars, dupVars, rotVars, dcVars, sdVars, hdVars>>
notDcVars == <<filterVars, dnsVars, resVars, poolVars, semVars, busVars, wcVars, domVars, enumVars, sqVars, backoffVars, tmVars, dupVars, rotVars, idVars, sdVars, hdVars>>
notSdVars == <<filterVars, dnsVars, resVars, poolVars, semVars, busVars, wcVars, domVars, enumVars, sqVars, backoffVars, tmVars, dupVars, rotVars, idVars, dcVars, hdVars>>
notHdVars == <<filterVars, dnsVars, resVars, poolVars, semVars, busVars, wcVars, domVars, enumVars, sqVars, backoffVars, tmVars, dupVars, rotVars, idVars, dcVars, sdVars>>

vars == <<filterVars, dnsVars, resVars, poolVars, semVars, busVars, wcVars, domVars, enumVars, sqVars, backoffVars, tmVars, dupVars, rotVars, idVars, dcVars, sdVars, hdVars>>

-----------------------------------------------------------------------------
(* Bounds *)

MaxCalls == 3          \* number of InputName deliveries in one behaviour
MaxFilterSize == 3     \* largest capacity of the residual filter (1 << 23 in enum.go)
MaxOut == 2            \* largest num given to OutputNames
MaxDnsCalls == 2       \* number of requests handed to the DNS service
MaxXfr == 1            \* number of NS queries of an active configuration that are answered
MaxDnsTimes == 2       \* largest count OnSubdomainDiscovered is given
MaxResolves == 2       \* number of Resolve calls on the base resolver
MaxStops == 2          \* number of Stop calls on the base resolver
MaxIDs == 2            \* number of query IDs (1 << 16 in nextID)
MaxPool == 2           \* number of resolvers in the pool
MaxSem == 2            \* largest size of the DNS-query semaphore (from the configuration)
MaxSemTasks == 3       \* number of goroutines started with a permit
MaxSweep == 2          \* number of addresses of a reverse DNS sweep (250 or 500 in addr.go)
MaxAddrQ == 2          \* largest number of addresses in the queues of the AddressManager
MaxBusSem == 2         \* largest size given to NewEventBus
MaxPubs == 2           \* number of Publish calls
MaxSubCalls == 2       \* number of Subscribe calls
MaxUnsubCalls == 1     \* number of Unsubscribe calls
MaxFetch == 3          \* number of calls of fetchWildcardType
MaxSrcs == 2           \* largest number of selected data sources
MaxDomInputs == 3      \* number of InputName calls on the DomainManager
MaxDomOutputs == 6     \* number of OutputRequests calls on the DomainManager
MaxDNSQ == 1           \* largest Config.MaxDNSQueries
MaxEnumQ == 1          \* largest length of a queue of the enumeration
MaxCompleted == 2      \* largest value of completed between two ticks of t
MaxSendQ == 3           \* number of requests queued for the sender of a resolver
MaxTimesCalls == 3      \* number of checkSubdomain goroutines that call timesForSubdomain
MaxDups == 3            \* number of requests checkResFilter rejects
MaxDupTime == 70        \* the seconds a behaviour of processDupNames lasts
MaxHdAddrs == 2         \* number of addresses of the collection
MaxSdPubs == 2          \* number of Publish calls on the topic with subscribers
IdBits == 2             \* width of a query ID in bits (16 in nextID)
MaxRotations == 3       \* number of rotations of the connections, the first one included
MaxRotCalls == 2        \* number of calls of currentConnection and lastConnection
MaxDomIdle == 1        \* number of OutputRequests calls of useManagers on an empty DomainManager

-----------------------------------------------------------------------------
(* Names are sequences of labels; tags are the request tags of requests.   *)

Tags == {"dns", "api"}

RootDomain == <<"ex", "com">>

\* names as data sources deliver them (not yet sanitized)
NewNames == { <<"www", "ex", "com">>, <<"WWW", "ex", "com">>, <<"m", "ex", "com">> }

\* names as the resolved-name dispatcher delivers them: one whose suffix
\* carries white space that checkSubdomain trims, a service subdomain and
\* a name outside the scope
ResolvedNames == { <<"a", " www", "ex", "com">>, <<"a", "_tcp", "ex", "com">>, <<"com">> }

\* the names the residual filter can be asked about
FilterNames == { "www.ex.com", "m.ex.com" }

RECURSIVE Join(_)
\* strings.Join(labels, ".")
Join(labels) ==
    IF labels = <<>> THEN ""
    ELSE IF Len(labels) = 1 THEN labels[1]
    ELSE labels[1] \o "." \o Join(Tail(labels))

\* strings.ToLower on one label of the alphabet of the model
ToLowerLabel(l) == IF l = "WWW" THEN "www" ELSE l

\* requests.SanitizeDNSRequest: lower-cases the name
SanitizeName(labels) == [i \in 1..Len(labels) |-> ToLowerLabel(labels[i])]

\* strings.TrimSpace on one label of the alphabet of the model
TrimLabel(l) == IF l = " www" THEN "www" ELSE l

\* strings.TrimSpace on the joined labels: white space goes from the two ends
TrimSpace(labels) ==
    [i \in 1..Len(labels) |-> IF i \in {1, Len(labels)} THEN TrimLabel(labels[i]) ELSE labels[i]]

\* NewSubdomainManager: the capacity of timesChan
TimesChanSize == 10

\* strconv.FormatBool
FormatBool(b) == IF b THEN "true" ELSE "false"

\* TrustedTag: DNS, CERT, ARCHIVE and AXFR are trusted
\* requests.AXFR
AXFR == "axfr"

TrustedTag(tag) == tag = "dns" \/ tag = "cert" \/ tag = "archive" \/ tag = AXFR

Req(name, tag) == [Name |-> name, Domain |-> RootDomain, Tag |-> tag]

NoReq == [Name |-> <<>>, Domain |-> <<>>, Tag |-> ""]

-----------------------------------------------------------------------------
(* stringfilter.Filter.  The exact filter (NewStringFilter) answers from    *)
(* the set of the strings recorded.  The Bloom filter (NewBloomFilter) is   *)
(* kept as the set of the strings it takes for recorded: those recorded,    *)
(* and those it has answered "seen" for although they never were (false     *)
(* positives).  A filter that has recorded nothing has no bit set and gives *)
(* no false positive, and an answer "seen" stays until the filter is        *)
(* replaced.                                                                *)

\* Duplicate(s) of the exact filter: reports whether s was recorded, and
\* records it
FilterDuplicate(filter, s) == [dup |-> s \in filter, filter |-> filter \cup {s}]

\* Has(s) of the Bloom filter: the answers it can give, fp for a false
\* positive
BloomHas(filter, s) ==
    IF s \in filter THEN {[has |-> TRUE, fp |-> FALSE, filter |-> filter]}
    ELSE IF filter = {} THEN {[has |-> FALSE, fp |-> FALSE, filter |-> filter]}
    ELSE {[has |-> FALSE, fp |-> FALSE, filter |-> filter],
          [has |-> TRUE, fp |-> TRUE, filter |-> filter \cup {s}]}

\* Duplicate(s) of the Bloom filter: the answers it can give; s is recorded
\* unless the filter takes it for recorded
BloomDuplicate(filter, s) ==
    IF s \in filter THEN {[dup |-> TRUE, fp |-> FALSE, filter |-> filter]}
    ELSE IF filter = {} THEN {[dup |-> FALSE, fp |-> FALSE, filter |-> {s}]}
    ELSE {[dup |-> FALSE, fp |-> FALSE, filter |-> filter \cup {s}],
          [dup |-> TRUE, fp |-> TRUE, filter |-> filter \cup {s}]}

-----------------------------------------------------------------------------
(* Enumeration.checkResFilter, run under resFilterLock: one atomic step.   *)
(* The result is the new filter state and whether the request is admitted. *)

FilterKey(req, bit) == Join(req.Name) \o FormatBool(bit)

ResetDue_Never(count, max) == FALSE

\* the reset at the head of checkResFilter
ResetDue(count, max) == count >= max

\* the outcomes of checkResFilter after the guard of the untrusted requests,
\* on the filter f the guard left: Duplicate decides
AfterGuard(f, c0, reset, key) ==
    { [admit |-> ~d.dup, filter |-> d.filter, count |-> IF d.dup THEN c0 ELSE c0 + 1,
       reset |-> reset, fp |-> d.fp] : d \in BloomDuplicate(f, key) }

CheckResFilter_NoTrustedGuard(filter, count, max, req) ==
    LET reset   == ResetDue(count, max)
        f0      == IF reset THEN {} ELSE filter
        c0      == IF reset THEN 0 ELSE count
        trusted == TrustedTag(req.Tag)
    IN  AfterGuard(f0, c0, reset, FilterKey(req, trusted))

CheckResFilter_NoDuplicate(filter, count, max, req) ==
    LET reset   == ResetDue(count, max)
        f0      == IF reset THEN {} ELSE filter
        c0      == IF reset THEN 0 ELSE count
        trusted == TrustedTag(req.Tag)
    IN  UNION { IF h.has
                THEN {[admit |-> FALSE, filter |-> h.filter, count |-> c0, reset |-> reset,
                       fp |-> h.fp]}
                ELSE {[admit |-> TRUE, filter |-> h.filter, count |-> c0 + 1,
                       reset |-> reset, fp |-> FALSE]} :
                h \in (IF trusted THEN {[has |-> FALSE, fp |-> FALSE, filter |-> f0]}
                       ELSE BloomHas(f0, FilterKey(req, TRUE))) }

\* checkResFilter: the outcomes of a call, one for every answer the Bloom
\* filter can give. Has is asked for an untrusted request only.
CheckResFilter(filter, count, max, req) ==
    LET reset   == ResetDue(count, max)
        f0      == IF reset THEN {} ELSE filter
        c0      == IF reset THEN 0 ELSE count
        trusted == TrustedTag(req.Tag)
    IN  UNION { IF h.has
                THEN {[admit |-> FALSE, filter |-> h.filter, count |-> c0, reset |-> reset,
                       fp |-> h.fp]}
                ELSE AfterGuard(h.filter, c0, reset, FilterKey(req, trusted)) :
                h \in (IF trusted THEN {[has |-> FALSE, fp |-> FALSE, filter |-> f0]}
                       ELSE BloomHas(f0, FilterKey(req, TRUE))) }

\* The history of the residual filter.  For every name: admU and admT count
\* the untrusted and trusted submissions admitted since the last reset of the
\* filter; everU, everT and everUT tell that at some time of the run an
\* untrusted submission was admitted, a trusted one was admitted, and a
\* trusted one was admitted after an untrusted one; fp tells that the filter
\* has rejected a submission of the name by a false positive.  `last` is the
\* latest decision, and `seq` flips at every decision.
NoHist == [admU |-> 0, admT |-> 0, everU |-> FALSE, everT |-> FALSE, everUT |-> FALSE,
           fp |-> FALSE]

HistInit == [names |-> [n \in FilterNames |-> NoHist],
             resets |-> 0,
             seq |-> FALSE,
             last |-> [name |-> "", tag |-> "", admit |-> FALSE, reset |-> FALSE, from |-> "",
                       fp |-> FALSE]]

HistAfter(h, req, res, from) ==
    LET n    == Join(req.Name)
        tr   == TrustedTag(req.Tag)
        base == [m \in FilterNames |->
                   IF res.reset THEN [h.names[m] EXCEPT !.admU = 0, !.admT = 0, !.fp = FALSE]
                   ELSE h.names[m]]
        upd  == IF ~res.admit THEN [base[n] EXCEPT !.fp = @ \/ res.fp]
                ELSE IF tr
                THEN [base[n] EXCEPT !.admT = @ + 1, !.everT = TRUE,
                                     !.everUT = @ \/ base[n].everU]
                ELSE [base[n] EXCEPT !.admU = @ + 1, !.everU = TRUE]
    IN  [names  |-> [base EXCEPT ![n] = upd],
         resets |-> IF res.reset /\ h.resets < 2 THEN h.resets + 1 ELSE h.resets,
         seq    |-> ~h.seq,
         last   |-> [name |-> n, tag |-> req.Tag, admit |-> res.admit,
                     reset |-> res.reset, from |-> from, fp |-> res.fp]]

-----------------------------------------------------------------------------
(* The callbacks: NameManager.InputName and SubdomainManager.InputName     *)
(* with its checkSubdomain goroutine.                                      *)

Calls == 1..MaxCalls

-----------------------------------------------------------------------------
(* The data of the DNS service: names under the root domain, the suffixes  *)
(* the wildcard detector is asked about, and the record data of answers.   *)

\* wildcards.go: the wildcard types
WildcardTypeNone == 0
WildcardTypeStatic == 1
WildcardTypeDynamic == 2

\* wildcards.go: the number of unlikely names queried by one wildcard test
numOfWildcardTests == 5

DnsCalls == 1..MaxDnsCalls

\* names handed to the DNS service
DnsNames == { <<"ex", "com">>, <<"w", "ex", "com">>, <<"v", "w", "ex", "com">>,
              <<"u", "v", "w", "ex", "com">>, <<"x", "ex", "com">> }

\* cfg.Blacklisted
Blacklisted(name) == name = <<"x", "ex", "com">>

\* popularSRVRecords, one entry
SrvLabel == "_sip"

\* labels[i:] of a Go slice
Suffix(labels, i) == SubSeq(labels, i + 1, Len(labels))

\* the suffixes fetchWildcardType can be asked about: those between the
\* root domain and the parent of a name
WildSubs == {RootDomain} \cup
            UNION { { Suffix(n, i) : i \in 1..(Len(n) - Len(RootDomain)) } : n \in DnsNames }

\* the record data one query can return
RecordSets == { {}, {"ip1"}, {"ip2"} }

\* an entry that is not in the map of manageWildcards
NoWildcard == [WildcardType |-> WildcardTypeNone, Answers |-> {}, found |-> FALSE,
               beingTested |-> FALSE]

NoDnsReq == [Name |-> <<>>, Domain |-> <<>>, Tag |-> "", Records |-> {}]

\* no call of hasWildcard in this step
NoCall == [Name |-> <<>>, Records |-> {}, Type |-> WildcardTypeNone, Ret |-> "none"]

\* the DNS service before any request
DnsIdle ==
    /\ xpc = [c \in DnsCalls |-> "none"]
    /\ xsub = [c \in DnsCalls |-> <<>>]
    /\ xleft = [c \in DnsCalls |-> {}]
    /\ wildcards = [s \in WildSubs |-> NoWildcard]
    /\ dpc = [c \in DnsCalls |-> "idle"]
    /\ dreq = [c \in DnsCalls |-> NoDnsReq]
    /\ dret = [c \in DnsCalls |-> "none"]
    /\ hwIdx = [c \in DnsCalls |-> -1]
    /\ published = {}
    /\ danswers = [c \in DnsCalls |-> FALSE]
    /\ hw = NoCall

\* the DNS service of a configuration that is not active
DnsStart == DnsIdle /\ dnsActive = FALSE

-----------------------------------------------------------------------------
(* The data of the base resolver.                                          *)

\* resolver.go: the priority levels
PriorityLow == 0
PriorityHigh == 1
PriorityCritical == 2

\* resolver.go: the made up rcodes
ResolverErrRcode == 100
TimeoutRcode == 101
NotAvailableRcode == 256

\* dns.RcodeSuccess, dns.RcodeServerFailure, dns.RcodeNameError
RcodeSuccess == 0
RcodeServerFailure == 2
RcodeNameError == 3

\* RetryCodes: Timeout, Refused, ServerFailure, NotImplemented
RetryCodes == {TimeoutRcode, 5, RcodeServerFailure, 4}

Priorities == {PriorityLow, PriorityHigh, PriorityCritical}

ResReqs == 1..MaxResolves

\* the calls of Stop
StopCalls == 1..MaxStops

IDs == 0..(MaxIDs - 1)

\* an entry of the map xchgs: ph marks the placeholder nextID stores (a
\* resolveRequest with a Timestamp only); req is the request the ID was
\* obtained for; old tells that WindowDuration has passed since Timestamp
NoEntry == [req |-> 0, ph |-> FALSE, old |-> FALSE]

\* the nil *resolveRequest
NilReq == NoEntry

\* NewBaseResolver: the resolver before any call
ResStart ==
    /\ stopped = FALSE
    /\ stopSent = 0
    /\ stpc = [k \in StopCalls |-> "idle"]
    /\ resPanic = FALSE
    /\ xchgDone = FALSE
    /\ mgrAlive = TRUE
    /\ xchgQueues = [p \in Priorities |-> <<>>]
    /\ rpc = [c \in ResReqs |-> "idle"]
    /\ rprio = [c \in ResReqs |-> PriorityLow]
    /\ lres = {}
    /\ nres = [c \in ResReqs |-> 0]
    /\ spc = "idle"
    /\ sreq = 0
    /\ sid = 0
    /\ xchgs = [i \in IDs |-> NoEntry]
    /\ timeouts = {}
    /\ chAddRequest = <<>>
    /\ chAddTimeout = <<>>
    /\ chDelTimeout = <<>>
    /\ wire = [c \in ResReqs |-> "none"]
    /\ wid = [c \in ResReqs |-> 0]
    /\ pmpc = [c \in ResReqs |-> "none"]
    /\ pmreq = [c \in ResReqs |-> NilReq]
    /\ swpc = "idle"
    /\ swIds = <<>>

\* the outcome of a call of Resolve: the flag again and the error, if any,
\* with its rcode
NoOutcome == [again |-> FALSE, isErr |-> FALSE, rcode |-> -1]

\* NewResolverPool: the pool before any call
PoolStart ==
    /\ poolStopped = {}
    /\ rpResolvers = 1..MaxPool
    /\ poolCur = 0
    /\ poolPc = "idle"
    /\ poolPriority = 0
    /\ poolAttempts = 0
    /\ poolCount = 0
    /\ poolLast = NoOutcome
    /\ poolRes = NoOutcome
    /\ ctxCancelled = FALSE
    /\ poolLate = FALSE

\* the goroutines that are started holding a permit
SemTasks == 1..MaxSemTasks

\* the configuration's semaphore before any request: every permit is free
SemStart ==
    /\ semPermits = semSize
    /\ semPc = [t \in SemTasks |-> "none"]
    /\ semKind = [t \in SemTasks |-> "none"]
    /\ semReleased = [t \in SemTasks |-> 0]
    /\ rdPc = "idle"
    /\ rdIps = <<>>
    /\ rdIdx = 1
    /\ sweepFilter = {}
    /\ addrRevFilter = {}
    /\ addrResFilter = {}
    /\ asnLookup = <<>>
    /\ asnCur = [Req |-> 0, Resolved |-> FALSE]

\* the topics and the callbacks of the event bus
BusTopicNames == {"a"}
BusCallbacks == {1, 2}

\* no publication
NoPub == [topic |-> "", late |-> FALSE]

\* NewEventBus: empty channels and queues, every permit free, the
\* dispatcher at its select
BusStart ==
    /\ busPermits = busMax
    /\ busDone = FALSE
    /\ chSubscribe = <<>>
    /\ chUnsubscribe = <<>>
    /\ busQueues = [p \in {PriorityLow, PriorityHigh, PriorityCritical} |-> <<>>]
    /\ busTopics = <<>>
    /\ bpc = "select"
    /\ bp = PriorityCritical
    /\ bcur = NoPub
    /\ bcbs = <<>>
    /\ curIdx = 0
    /\ busExec = [e \in BusCallbacks \X BOOLEAN |-> 0]
    /\ busPubs = 0
    /\ busSubs = 0
    /\ busUnsubs = 0

\* the calls of fetchWildcardType and the suffixes they ask about
FetchCalls == 1..MaxFetch
WcSubs == {RootDomain, <<"w", "ex", "com">>}

\* a wildcard entry; found is false for a suffix without an entry in the map
NoEntryYet == [WildcardType |-> WildcardTypeNone, Answers |-> <<>>, beingTested |-> FALSE,
               found |-> FALSE]

\* no test ended in this step
NoTest == [Sub |-> <<>>, probes |-> <<>>, Result |-> NoEntryYet]

\* the wildcard manager with an empty map, no request and no test
WcStart ==
    /\ wcMap = [sub \in WcSubs |-> NoEntryYet]
    /\ chWildcardReq = <<>>
    /\ chTestResult = <<>>
    /\ resend = {}
    /\ fpc = [c \in FetchCalls |-> "idle"]
    /\ fsub = [c \in FetchCalls |-> <<>>]
    /\ fans = [c \in FetchCalls |-> NoEntryYet]
    /\ wtPc = [sub \in WcSubs |-> "none"]
    /\ wcTests = [sub \in WcSubs |-> 0]
    /\ wtLast = NoTest

\* the root domains InputName is given; "" is a request without a domain
DomDomains == {"", "a.com", "b.com"}

\* NewDomainManager: an empty queue and filter, curDomain "" and srcIndex 0,
\* last the time of the construction
DomStart ==
    /\ domQueue = <<>>
    /\ domFilter = {}
    /\ curDomain = ""
    /\ srcIndex = 0
    /\ domRecent = TRUE
    /\ domPanic = FALSE
    /\ domStopped = FALSE
    /\ domInputs = <<>>
    /\ domReleased = <<>>
    /\ domOuts = 0

\* no call of useManagers in this step
NoUse == [pc |-> "none", required |-> -1, count |-> 0, published |-> 0, pending |-> 0,
          sent |-> 0]

\* no per-minute check in this step
NoMin == [sec |-> -1, retries |-> 0]

\* Enumeration.Start up to the first call of useManagers: the managers are
\* new, the services have nothing pending, the activity is recent
EnumStart ==
    /\ enPc = "init"
    /\ enEnded = ""
    /\ enDone = FALSE
    /\ enNameQ = 0
    /\ enSubQ = 0
    /\ enSubReqQ = 0
    /\ enSubRQ = 0
    /\ enAddrQ = 0
    /\ enDnsLen = 0
    /\ enDataLen = 0
    /\ enRecent = TRUE
    /\ completed = 0
    /\ enStep = ""
    /\ enUse = NoUse
    /\ enMin = NoMin

\* the calls of investigateAddr, one for each address
HdAddrs == 1..MaxHdAddrs

\* HostedDomains after its loops over the addresses: every investigateAddr
\* has been started, nothing has been sent, and Output is open
HdFresh ==
    /\ hdFired = FALSE
    /\ hdCloses = 0
    /\ hdLate = FALSE
    /\ hdPanic = FALSE
    /\ hdMain = "wait"
    /\ hdWorker = [a \in HdAddrs |-> "reverse"]
    /\ hdFilter = {}
    /\ hdSent = 0

\* ReverseWhois at its loop: collect is subscribed, the requests have been
\* sent to the data sources, nothing has been sent on Output, which is open,
\* and no investigateAddr runs
WhoisFresh ==
    /\ hdFired = FALSE
    /\ hdCloses = 0
    /\ hdLate = FALSE
    /\ hdPanic = FALSE
    /\ hdMain = "loop"
    /\ hdWorker = [a \in HdAddrs |-> "done"]
    /\ hdFilter = {}
    /\ hdSent = 0

\* a collection without a timeout and not in active mode
HdStart ==
    /\ hdMethod = "HostedDomains"
    /\ hdTimeout = FALSE
    /\ hdActive = FALSE
    /\ HdFresh

\* the callbacks that are subscribed to the topic
SdCallbacks == {1, 2}

\* NewEventBus: the channel, the map and the queues are empty, and
\* processRequests is at its select
SdStart ==
    /\ sdChan = <<>>
    /\ sdTopics = <<>>
    /\ sdQueues = [p \in {PriorityLow, PriorityHigh, PriorityCritical} |-> <<>>]
    /\ sdPc = "select"
    /\ sdReturned = {}
    /\ sdGot = [fn \in SdCallbacks |-> {}]
    /\ sdHandled = {}
    /\ sdBand = PriorityCritical
    /\ sdCur = [n |-> 0, owed |-> {}]
    /\ sdCbs = <<>>
    /\ sdPermits = MaxBusSem
    /\ sdExec = 0
    /\ sdPubs = 0

\* the names given to SubdomainToDomain
DcNames == { <<"ex", "com">>, <<"w", "ex", "com">>, <<"b", "ex", "com">>,
             <<"a", "b", "ex", "com">> }

\* the names that are asked for NS records, and the names an answer can carry
DcZoneNames == { <<"ex", "com">>, <<"w", "ex", "com">>, <<"b", "ex", "com">>,
                 <<"a", "b", "ex", "com">> }

\* NewResolverPool: the cache is empty
DcEmpty ==
    /\ domainCache = {}
    /\ dcName = <<>>
    /\ dcRet = <<>>
    /\ dcCached = FALSE

\* a pool whose SubdomainToDomain is not called
DcStart ==
    /\ dcZones = [z \in DcZoneNames |-> <<>>]
    /\ DcEmpty

\* the values of a query ID (uint16 in the code)
IdSpace == 2 ^ IdBits

\* manageXchgState before its loop: the map is empty
IdStart ==
    /\ idMap = {}
    /\ idPc = "idle"
    /\ idStart = 0
    /\ idI = 0
    /\ idSteps = 0
    /\ idBefore = {}
    /\ idRet = 0

RotCalls == 1..MaxRotCalls

\* no rotation in this step
NoRot == [closed |-> {}, oldCurrent |-> 0, oldLast |-> 0, fresh |-> 0]

\* NewBaseResolver: periodicRotations is started with current and last nil,
\* and rotateConnections has put the first message on the channel Rotate
RotStart ==
    /\ rotCurrent = 0
    /\ rotLast = 0
    /\ rotDialled = 0
    /\ rotClosed = {}
    /\ rotTokens = 1
    /\ rotTicks = 0
    /\ rotAlive = TRUE
    /\ rotDone = FALSE
    /\ rotChCurrent = <<>>
    /\ rotChLast = <<>>
    /\ acPc = [c \in RotCalls |-> "idle"]
    /\ acKind = [c \in RotCalls |-> ""]
    /\ acConn = [c \in RotCalls |-> 0]
    /\ acLate = [c \in RotCalls |-> "no"]
    /\ rotStep = NoRot

\* processDupNames before its loop: nothing is pending
DupStart ==
    /\ dupQueue = <<>>
    /\ dupPending = <<>>
    /\ dupNow = 0
    /\ dupGraph = {}
    /\ dupPc = "loop"
    /\ dupN = 0
    /\ dupCount = 0
    /\ dupClosed = FALSE
    /\ dupNextId = 0
    /\ dupHandled = <<>>

\* the suffixes checkSubdomain asks about: the root domain and a name below it
TmDomain == "ex.com"
TmSubs == {TmDomain, "w.ex.com"}
TmCalls == 1..MaxTimesCalls

\* NewSubdomainManager: timesChan is empty and timesManager is started with
\* an empty map
TimesStart ==
    /\ tmPc = [g \in TmCalls |-> "idle"]
    /\ tmSub = [g \in TmCalls |-> ""]
    /\ tmGot = [g \in TmCalls |-> 0]
    /\ tmChan = <<>>
    /\ tmMap = [s \in {} |-> 0]
    /\ tmDone = FALSE
    /\ tmAlive = TRUE
    /\ tmPanic = FALSE
    /\ tmHist = [s \in TmSubs |-> <<>>]
    /\ tmProbes = [s \in TmSubs |-> 0]

\* processRequests before its loop: the dispatcher has not slept
BackoffStart ==
    /\ busSlept = 0
    /\ busRun = 0

\* NewBaseResolver: the queues are empty, and sendQueries is started
SqStart ==
    /\ sqQueues = [p \in Priorities |-> 0]
    /\ sqDone = FALSE
    /\ sqPc = "select"
    /\ sqBand = PriorityCritical
    /\ sqCount = 0
    /\ sqSent = FALSE
    /\ sqCurIdx = 0
    /\ sqAppended = 0
    /\ sqRun = 0
    /\ sqWrote = PriorityLow - 1
    /\ sqSlept = 0

\* NewEnumeration: the filter and the managers before any name
FilterStart ==
    /\ resFilter = {}
    /\ resFilterCount = 0
    /\ altSourcesQueue = <<>>
    /\ nmQueue = <<>>
    /\ smQueue = <<>>
    /\ rqueue = <<>>
    /\ subqueue = <<>>
    /\ subdomains = [s \in {} |-> 0]
    /\ timesChan = <<>>
    /\ ctimes = [c \in Calls |-> 0]
    /\ discovered = {}
    /\ nmStopped = FALSE
    /\ cpc = [c \in Calls |-> "idle"]
    /\ creq = [c \in Calls |-> NoReq]
    /\ cfrom = [c \in Calls |-> ""]
    /\ output = <<>>
    /\ subs = [n \in FilterNames |-> [from |-> {}, tags |-> {}, calls |-> 0]]
    /\ hist = HistInit

FilterInit ==
    /\ FilterStart
    /\ PoolStart
    /\ HdStart
    /\ SdStart
    /\ DcStart
    /\ IdStart
    /\ RotStart
    /\ DupStart
    /\ TimesStart
    /\ BackoffStart
    /\ SqStart
    /\ enPassive = FALSE
    /\ enMaxDNS = MaxDNSQ
    /\ EnumStart
    /\ DomStart
    /\ domSrcs = MaxSrcs
    /\ domHasDns = TRUE
    /\ WcStart
    /\ semSize = MaxSem
    /\ SemStart
    /\ busMax = MaxBusSem
    /\ BusStart
    /\ filterMaxSize \in 2..MaxFilterSize
    /\ DnsStart
    /\ ResStart

\* the history of deliveries after a callback has entered a manager with name n
SubsAfter(n, from, tag) ==
    [subs EXCEPT ![n] = [from  |-> @.from \cup {from},
                         tags  |-> @.tags \cup {tag},
                         calls |-> IF @.calls < MaxCalls THEN @.calls + 1 ELSE @.calls]]

ApplyResFilter_AppendsAlways(req, from, res) ==
    /\ resFilter' = res.filter
    /\ resFilterCount' = res.count
    /\ altSourcesQueue' = Append(altSourcesQueue, req)
    /\ hist' = HistAfter(hist, req, res, from)

\* checkResFilter on the fields of the enumeration, for its two callers;
\* res is the outcome of the call
ApplyResFilter(req, from, res) ==
    /\ resFilter' = res.filter
    /\ resFilterCount' = res.count
    /\ altSourcesQueue' = IF res.admit THEN altSourcesQueue ELSE Append(altSourcesQueue, req)
    /\ hist' = HistAfter(hist, req, res, from)

\* NameManager.InputName up to the return of checkResFilter
NameInputName(c) ==
    /\ ~tmPanic
    /\ cpc[c] = "idle"
    /\ \A b \in Calls : b < c => cpc[b] # "idle"
    /\ \E name \in NewNames \cup {<<>>}, tag \in Tags :
         IF name = <<>>
         THEN /\ cpc' = [cpc EXCEPT ![c] = "done"]
              /\ UNCHANGED <<resFilter, resFilterCount, altSourcesQueue, hist, creq, cfrom, subs>>
         ELSE LET req == Req(SanitizeName(name), tag) IN
              \E res \in CheckResFilter(resFilter, resFilterCount, filterMaxSize, req) :
              LET admit == res.admit
              IN  /\ ApplyResFilter(req, "name", res)
                  /\ subs' = SubsAfter(Join(req.Name), "name", tag)
                  /\ creq' = [creq EXCEPT ![c] = IF admit THEN req ELSE NoReq]
                  /\ cfrom' = [cfrom EXCEPT ![c] = IF admit THEN "name" ELSE ""]
                  /\ cpc' = [cpc EXCEPT ![c] = IF admit THEN "nm_append" ELSE "done"]
    /\ UNCHANGED <<notFilterVars, subMgrVars, filterMaxSize, nmQueue, smQueue, rqueue, subqueue, subdomains, output>>

\* NameManager.InputName: r.queue.Append(req)
NameAppend(c) ==
    /\ ~tmPanic
    /\ cpc[c] = "nm_append"
    /\ nmQueue' = Append(nmQueue, creq[c])
    /\ cpc' = [cpc EXCEPT ![c] = "done"]
    /\ creq' = [creq EXCEPT ![c] = NoReq]
    /\ cfrom' = [cfrom EXCEPT ![c] = ""]
    /\ UNCHANGED <<notFilterVars, subMgrVars, resFilter, resFilterCount, filterMaxSize, altSourcesQueue, smQueue, rqueue,
                   subqueue, subdomains, output, subs, hist>>

\* NameManager.Stop: the queue is replaced by an empty one
NameStop ==
    /\ ~tmPanic
    /\ nmQueue' = <<>>
    /\ nmStopped' = TRUE
    /\ UNCHANGED <<notFilterVars, timesChan, ctimes, discovered, resFilter, resFilterCount, filterMaxSize,
                   altSourcesQueue, smQueue, rqueue, subqueue, subdomains, cpc, creq, cfrom, output,
                   subs, hist>>

\* Config.IsDomainInScope: the name is the root domain or lies under it
IsDomainInScope(name) ==
    /\ Len(name) >= Len(RootDomain)
    /\ SubSeq(name, Len(name) - Len(RootDomain) + 1, Len(name)) = RootDomain

\* SubdomainManager.InputName: the second labels of the service subdomains
ServiceLabels == {"_tcp", "_udp", "_tls"}

\* SubdomainManager.InputName: hands the request to the data manager, and
\* for a name of the scope that is no service subdomain queues it and
\* starts checkSubdomain
SubInputName(c) ==
    /\ ~tmPanic
    /\ cpc[c] = "idle"
    /\ \A b \in Calls : b < c => cpc[b] # "idle"
    /\ \E name \in ResolvedNames \cup {<<>>}, tag \in Tags :
         IF name = <<>>
         THEN /\ cpc' = [cpc EXCEPT ![c] = "done"]
              /\ UNCHANGED <<enDataLen, rqueue, creq, cfrom, subs>>
         ELSE LET req == Req(SanitizeName(name), tag)
              IN  /\ enDataLen' = enDataLen + 1
                  /\ IF ~IsDomainInScope(req.Name) \/ req.Name[2] \in ServiceLabels
                     THEN /\ cpc' = [cpc EXCEPT ![c] = "done"]
                          /\ UNCHANGED <<rqueue, creq, cfrom, subs>>
                     ELSE /\ rqueue' = Append(rqueue, req)
                          /\ creq' = [creq EXCEPT ![c] = req]
                          /\ cfrom' = [cfrom EXCEPT ![c] = "sub"]
                          /\ subs' = SubsAfter(Join(TrimSpace(Tail(req.Name))), "sub", tag)
                          /\ cpc' = [cpc EXCEPT ![c] = "sub_check"]
    /\ UNCHANGED <<notFilterEnumVars, enumButDataLen, subMgrVars, resFilter, resFilterCount, filterMaxSize,
                   altSourcesQueue, nmQueue, smQueue, subqueue, subdomains, output, hist>>

TimesAfter_First(m, sub) == 1

\* timesManager: the next count for a suffix
TimesAfter(m, sub) == IF sub \in DOMAIN m THEN m[sub] + 1 ELSE 1

\* checkSubdomain: the request made for the suffix of the name of req
SubReq(req) == [Name |-> TrimSpace(Tail(req.Name)), Domain |-> req.Domain, Tag |-> req.Tag]

\* SubdomainManager.checkSubdomain up to the send of timesForSubdomain on
\* timesChan
CheckSubdomain(c) ==
    /\ ~tmPanic
    /\ cpc[c] = "sub_check"
    /\ LET req    == creq[c]
           labels == req.Name
           num    == Len(labels)
       IN  \E isCNAME \in BOOLEAN :
             IF num < 2 \/ num - 1 < Len(req.Domain) \/ isCNAME
             THEN /\ cpc' = [cpc EXCEPT ![c] = "done"]
                  /\ creq' = [creq EXCEPT ![c] = NoReq]
                  /\ cfrom' = [cfrom EXCEPT ![c] = ""]
                  /\ UNCHANGED timesChan
             ELSE /\ Len(timesChan) < TimesChanSize
                  /\ timesChan' = Append(timesChan, [Sub |-> Join(SubReq(req).Name), Ch |-> c])
                  /\ cpc' = [cpc EXCEPT ![c] = "sub_times"]
                  /\ UNCHANGED <<creq, cfrom>>
    /\ UNCHANGED <<notFilterVars, ctimes, discovered, nmStopped, resFilter, resFilterCount, filterMaxSize,
                   altSourcesQueue, nmQueue, smQueue, rqueue, subqueue, subdomains, output, subs, hist>>

\* timesManager, case req := <-r.timesChan, for a goroutine of
\* checkSubdomain: the count of the suffix is advanced and sent back
TimesManager ==
    /\ ~tmPanic
    /\ tmAlive
    /\ timesChan # <<>>
    /\ LET r     == Head(timesChan)
           times == TimesAfter(subdomains, r.Sub)
       IN  /\ subdomains' = [s \in DOMAIN subdomains \cup {r.Sub} |->
                               IF s = r.Sub THEN times ELSE subdomains[s]]
           /\ ctimes' = [ctimes EXCEPT ![r.Ch] = times]
           /\ cpc' = [cpc EXCEPT ![r.Ch] = "sub_reply"]
    /\ timesChan' = Tail(timesChan)
    /\ UNCHANGED <<notFilterVars, discovered, nmStopped, resFilter, resFilterCount, filterMaxSize,
                   altSourcesQueue, nmQueue, smQueue, rqueue, subqueue, creq, cfrom, output, subs, hist>>

\* checkSubdomain: timesForSubdomain returns the count received, and the
\* suffix is published on SubDiscoveredTopic unless it is the root domain
CheckSubdomainPublish(c) ==
    /\ ~tmPanic
    /\ cpc[c] = "sub_reply"
    /\ LET subreq == SubReq(creq[c])
       IN  discovered' = IF subreq.Name # creq[c].Domain
                         THEN discovered \cup {[Name |-> Join(subreq.Name), Times |-> ctimes[c]]}
                         ELSE discovered
    /\ cpc' = [cpc EXCEPT ![c] = "sub_queue"]
    /\ UNCHANGED <<notFilterVars, timesChan, ctimes, nmStopped, resFilter, resFilterCount, filterMaxSize,
                   altSourcesQueue, nmQueue, smQueue, rqueue, subqueue, subdomains, creq, cfrom, output,
                   subs, hist>>

\* checkSubdomain: r.subqueue.Append(&subQueueElement{Req, Times})
CheckSubdomainQueue(c) ==
    /\ ~tmPanic
    /\ cpc[c] = "sub_queue"
    /\ subqueue' = Append(subqueue, [Req |-> SubReq(creq[c]), Times |-> ctimes[c]])
    /\ cpc' = [cpc EXCEPT ![c] = "sub_filter"]
    /\ UNCHANGED <<notFilterVars, subMgrVars, resFilter, resFilterCount, filterMaxSize,
                   altSourcesQueue, nmQueue, smQueue, rqueue, subdomains, creq, cfrom, output, subs, hist>>

\* checkSubdomain: checkResFilter(subreq)
CheckSubdomainFilter(c) ==
    /\ ~tmPanic
    /\ cpc[c] = "sub_filter"
    /\ LET subreq == SubReq(creq[c]) IN
       \E res \in CheckResFilter(resFilter, resFilterCount, filterMaxSize, subreq) :
       LET admit == res.admit
       IN  /\ ApplyResFilter(subreq, "sub", res)
           /\ creq' = [creq EXCEPT ![c] = IF admit THEN subreq ELSE NoReq]
           /\ cfrom' = [cfrom EXCEPT ![c] = IF admit THEN "sub" ELSE ""]
           /\ cpc' = [cpc EXCEPT ![c] = IF admit THEN "sm_append" ELSE "done"]
    /\ UNCHANGED <<notFilterVars, subMgrVars, filterMaxSize, nmQueue, smQueue, rqueue, subqueue,
                   subdomains, subs, output>>

\* SubdomainManager.checkSubdomain: r.queue.Append(nReq)
SubAppend(c) ==
    /\ ~tmPanic
    /\ cpc[c] = "sm_append"
    /\ smQueue' = Append(smQueue, creq[c])
    /\ cpc' = [cpc EXCEPT ![c] = "done"]
    /\ creq' = [creq EXCEPT ![c] = NoReq]
    /\ cfrom' = [cfrom EXCEPT ![c] = ""]
    /\ UNCHANGED <<notFilterVars, subMgrVars, resFilter, resFilterCount, filterMaxSize, altSourcesQueue, nmQueue, rqueue,
                   subqueue, subdomains, output, subs, hist>>

Min(a, b) == IF a < b THEN a ELSE b

NameOutputNames_Peek ==
    /\ ~tmPanic
    /\ nmQueue # <<>>
    /\ \E num \in 1..MaxOut :
         output' = output \o SubSeq(nmQueue, 1, Min(num, Len(nmQueue)))
    /\ UNCHANGED <<notFilterVars, subMgrVars, resFilter, resFilterCount, filterMaxSize, altSourcesQueue, nmQueue, smQueue, rqueue,
                   subqueue, subdomains, cpc, creq, cfrom, subs, hist>>

\* NameManager.OutputNames(num): up to num requests from the head of the queue
NameOutputNames ==
    /\ ~tmPanic
    /\ nmQueue # <<>>
    /\ \E num \in 1..MaxOut :
         LET k == Min(num, Len(nmQueue))
         IN  /\ output' = output \o SubSeq(nmQueue, 1, k)
             /\ nmQueue' = SubSeq(nmQueue, k + 1, Len(nmQueue))
    /\ UNCHANGED <<notFilterVars, subMgrVars, resFilter, resFilterCount, filterMaxSize, altSourcesQueue, smQueue, rqueue,
                   subqueue, subdomains, cpc, creq, cfrom, subs, hist>>

\* SubdomainManager.OutputNames(num)
SubOutputNames ==
    /\ ~tmPanic
    /\ smQueue # <<>>
    /\ \E num \in 1..MaxOut :
         LET k == Min(num, Len(smQueue))
         IN  /\ output' = output \o SubSeq(smQueue, 1, k)
             /\ smQueue' = SubSeq(smQueue, k + 1, Len(smQueue))
    /\ UNCHANGED <<notFilterVars, subMgrVars, resFilter, resFilterCount, filterMaxSize, altSourcesQueue, nmQueue, rqueue,
                   subqueue, subdomains, cpc, creq, cfrom, subs, hist>>

\* SubdomainManager.Stop: done is closed and the three queues are replaced
\* by empty ones; closing done a second time panics
TmStop ==
    /\ ~tmPanic
    /\ IF tmDone
       THEN /\ tmPanic' = TRUE
            /\ UNCHANGED <<tmDone, smQueue, rqueue, subqueue>>
       ELSE /\ tmDone' = TRUE
            /\ smQueue' = <<>>
            /\ rqueue' = <<>>
            /\ subqueue' = <<>>
            /\ UNCHANGED tmPanic
    /\ UNCHANGED <<notFilterTmVars, subMgrVars, resFilter, resFilterCount, filterMaxSize, altSourcesQueue,
                   nmQueue, subdomains, cpc, creq, cfrom, output, subs, hist,
                   tmPc, tmSub, tmGot, tmChan, tmMap, tmAlive, tmHist, tmProbes>>

\* timesManager, case <-r.done
TmManagerDone ==
    /\ ~tmPanic
    /\ tmAlive /\ tmDone
    /\ tmAlive' = FALSE
    /\ UNCHANGED <<notTmVars, tmPc, tmSub, tmGot, tmChan, tmMap, tmDone, tmHist, tmProbes, tmPanic>>

FilterNext ==
    \/ \E c \in Calls : NameInputName(c)
    \/ \E c \in Calls : NameAppend(c)
    \/ \E c \in Calls : SubInputName(c)
    \/ \E c \in Calls : CheckSubdomain(c)
    \/ TimesManager
    \/ \E c \in Calls : CheckSubdomainPublish(c)
    \/ \E c \in Calls : CheckSubdomainQueue(c)
    \/ \E c \in Calls : CheckSubdomainFilter(c)
    \/ \E c \in Calls : SubAppend(c)
    \/ NameOutputNames
    \/ SubOutputNames

\* the NameManager from NewNameManager to the Stop calls of its owner
NameMgrNext ==
    \/ \E c \in Calls : NameInputName(c)
    \/ \E c \in Calls : NameAppend(c)
    \/ NameOutputNames
    \/ NameStop

NameMgrSpec == FilterInit /\ [][NameMgrNext]_vars

\* the SubdomainManager from NewSubdomainManager to the Stop calls of its
\* owner
SubMgrNext ==
    \/ \E c \in Calls : SubInputName(c)
    \/ \E c \in Calls : CheckSubdomain(c)
    \/ TimesManager
    \/ \E c \in Calls : CheckSubdomainPublish(c)
    \/ \E c \in Calls : CheckSubdomainQueue(c)
    \/ \E c \in Calls : CheckSubdomainFilter(c)
    \/ \E c \in Calls : SubAppend(c)
    \/ SubOutputNames
    \/ TmStop
    \/ TmManagerDone

SubMgrSpec == FilterInit /\ [][SubMgrNext]_vars

FilterSpec == FilterInit /\ [][FilterNext]_vars

-----------------------------------------------------------------------------
(* Properties of the residual filter *)

\* a decision of checkResFilter is taken in this step
Decided == hist'.seq # hist.seq

\* C1: between two resets of the residual filter, checkResFilter admits a name
\* at most once as untrusted and at most once as trusted, hence at most twice,
\* whoever submits it (NameManager.InputName or checkSubdomain).
C1_AtMostTwice ==
    \A n \in FilterNames :
        /\ hist.names[n].admU <= 1
        /\ hist.names[n].admT <= 1
        /\ hist.names[n].admU + hist.names[n].admT <= 2

\* a name was admitted twice in the epoch and checkSubdomain's further
\* submission of it has just been rejected
C1_Witness ==
    \E n \in FilterNames :
        /\ hist.names[n].admU = 1 /\ hist.names[n].admT = 1
        /\ hist.last.name = n /\ ~hist.last.admit /\ ~hist.last.reset
        /\ hist.last.from = "sub"
        /\ "name" \in subs[n].from

\* C2 as stated, for the whole run: an untrusted submission is admitted only
\* if no trusted submission of the name was admitted before; a trusted
\* submission following an admitted untrusted one is admitted; once both
\* were admitted every further submission of the name is rejected.
C2_Original ==
    [][Decided =>
        LET n  == hist'.last.name
            tr == TrustedTag(hist'.last.tag)
            h  == hist.names[n]
        IN  /\ (~tr /\ hist'.last.admit) => ~h.everT
            /\ (tr /\ h.everU /\ ~h.everT) => hist'.last.admit
            /\ h.everUT => ~hist'.last.admit]_vars

\* C2 (amended): the same three rules for the submissions that the filter
\* decides without being reset, relative to the admissions since its last
\* reset; the trusted submission that follows an admitted untrusted one is
\* admitted unless the Bloom filter has answered a false positive for the
\* name since the reset.
C2_TwoTier ==
    [][(Decided /\ ~hist'.last.reset) =>
        LET n  == hist'.last.name
            tr == TrustedTag(hist'.last.tag)
            h  == hist.names[n]
        IN  /\ (~tr /\ hist'.last.admit) => h.admT = 0
            /\ (tr /\ h.admU = 1 /\ h.admT = 0 /\ ~hist'.names[n].fp) => hist'.last.admit
            /\ (h.admU = 1 /\ h.admT = 1) => ~hist'.last.admit]_vars

\* an untrusted and then a trusted submission of a name were admitted, and
\* a third, untrusted, submission of it has been rejected, with no reset
C2_Witness ==
    \E n \in FilterNames :
        /\ hist.names[n].everUT /\ hist.resets = 0
        /\ hist.names[n].admU = 1 /\ hist.names[n].admT = 1
        /\ ~hist.names[n].fp
        /\ hist.last.name = n /\ ~TrustedTag(hist.last.tag) /\ ~hist.last.admit

RECURSIVE CountName(_, _)
\* number of requests of the sequence q whose name is n
CountName(q, n) ==
    IF q = <<>> THEN 0
    ELSE (IF Join(Head(q).Name) = n THEN 1 ELSE 0) + CountName(Tail(q), n)

\* the callbacks that are still inside a manager with name n
CallsOn(n) ==
    {c \in Calls : cfrom[c] # "" /\
        n = IF cpc[c] \in {"sub_check", "sub_times", "sub_reply", "sub_queue", "sub_filter"}
            THEN Join(SubReq(creq[c]).Name) ELSE Join(creq[c].Name)}

\* all submissions of n so far are deliveries of one NewName request (n, t)
\* to NameManager.InputName, the filter was not reset and the manager was
\* not stopped
SameRequestOnly(n, t) ==
    /\ hist.resets = 0
    /\ ~nmStopped
    /\ subs[n].calls >= 1
    /\ subs[n].from = {"name"}
    /\ subs[n].tags = {t}

\* C3 as stated: when one NewName request is delivered N times to
\* InputName, the filter is not reset and the manager is not stopped, the
\* name is in the queue and the released names at most once, and exactly
\* once when all the deliveries have returned; after the queue is drained it
\* is in the results of OutputNames exactly once.
C3_Original ==
    \A n \in FilterNames, t \in Tags :
        SameRequestOnly(n, t) =>
            /\ CountName(nmQueue, n) + CountName(output, n) <= 1
            /\ CountName(smQueue, n) = 0
            /\ CallsOn(n) = {} => CountName(nmQueue, n) + CountName(output, n) = 1
            /\ (CallsOn(n) = {} /\ CountName(nmQueue, n) = 0) => CountName(output, n) = 1

\* C3 (amended): when one NewName request is delivered N times to InputName,
\* the filter is not reset and the enumeration has not stopped the manager
\* (Stop drops the queue), the name is in the queue and the released names
\* at most once; it is there exactly once when all the deliveries have
\* returned, and in the results of OutputNames exactly once after the queue
\* is drained, unless the Bloom filter has rejected the name by a false
\* positive, in which case it is there at most once.
C3_Idempotent ==
    \A n \in FilterNames, t \in Tags :
        SameRequestOnly(n, t) =>
            /\ CountName(nmQueue, n) + CountName(output, n) <= 1
            /\ CountName(smQueue, n) = 0
            /\ (CallsOn(n) = {} /\ ~hist.names[n].fp) =>
                   CountName(nmQueue, n) + CountName(output, n) = 1
            /\ (CallsOn(n) = {} /\ CountName(nmQueue, n) = 0 /\ ~hist.names[n].fp) =>
                   CountName(output, n) = 1

\* one request delivered three times with no false positive of the filter,
\* all deliveries returned, and the name released by OutputNames
C3_Witness ==
    \E n \in FilterNames, t \in Tags :
        /\ SameRequestOnly(n, t)
        /\ subs[n].calls >= 3
        /\ ~hist.names[n].fp
        /\ CallsOn(n) = {}
        /\ CountName(output, n) = 1 /\ CountName(nmQueue, n) = 0

-----------------------------------------------------------------------------
(* The DNS service (processDNSRequest, processSubdomain, resolvedName) and *)
(* the wildcard detector (hasWildcard, wildcardTest, manageWildcards).     *)

RECURSIVE IntersectAll(_, _)
\* wildcardTest: the record data common to the answers of all the probes
IntersectAll(probes, i) ==
    IF i > Len(probes) THEN probes[1]
    ELSE IntersectAll(probes, i + 1) \cap probes[i]

\* wildcardTest: the entry one test of a suffix produces from the answers
\* of its numOfWildcardTests probes
WildcardTest(probes) ==
    LET retRecords == \E i \in 1..Len(probes) : probes[i] # {}
        final      == IntersectAll(probes, 1)
    IN  [WildcardType |-> IF retRecords
                          THEN (IF final = {} THEN WildcardTypeDynamic ELSE WildcardTypeStatic)
                          ELSE WildcardTypeNone,
         Answers |-> final,
         found |-> TRUE,
         beingTested |-> FALSE]

\* the answers a wildcard test can see
Probes == [1..numOfWildcardTests -> RecordSets]

\* the entries a wildcard test can produce
TestResults == { WildcardTest(p) : p \in Probes }

\* hasWildcard: the labels the loop walks over
WildcardLabels(req) ==
    IF Len(req.Name) > Len(req.Domain) THEN Tail(req.Name) ELSE req.Name

\* hasWildcard: the first value of the loop index (the root domain)
FirstLevel(req) == Len(WildcardLabels(req)) - Len(req.Domain)

\* hasWildcard: the verdict of one iteration of the loop on entry w,
\* -1 when the loop goes on to the next label
LevelVerdict_StaticOnly(w, records) ==
    IF w.WildcardType = WildcardTypeStatic
         /\ (records = {} \/ records \cap w.Answers # {})
    THEN WildcardTypeStatic
    ELSE -1

LevelVerdict(w, records) ==
    IF w.WildcardType = WildcardTypeDynamic THEN WildcardTypeDynamic
    ELSE IF w.WildcardType = WildcardTypeStatic
              /\ (records = {} \/ records \cap w.Answers # {})
         THEN WildcardTypeStatic
    ELSE -1

RECURSIVE AcrossLevels(_, _, _, _, _)
\* manageWildcards, case IPsAcrossLevels: the loop over the levels
AcrossLevels(map, labels, i, l, records) ==
    IF i > l THEN records
    ELSE LET w == map[Suffix(labels, i)]
         IN  IF ~w.found \/ w.Answers = {} THEN records
             ELSE AcrossLevels(map, labels, i + 1, l, records \cap w.Answers)

\* manageWildcards, case IPsAcrossLevels
IPsAcrossLevels(map, req) ==
    LET base == Len(req.Domain)
        l    == Len(req.Name) - base
    IN  IF req.Records = {} THEN WildcardTypeNone
        ELSE IF Len(req.Name) <= base \/ l < 3 THEN WildcardTypeNone
        ELSE IF AcrossLevels(map, req.Name, 1, l, {}) # {} THEN WildcardTypeStatic
        ELSE WildcardTypeNone

\* Semaphore.Acquire(1) goes on when a permit is free
CanAcquire_Always(permits) == permits >= 0

CanAcquire(permits) == permits >= 1

\* manageWildcards, case WildcardReq: the entry stored for a suffix when its
\* test is started
TestingEntry == [WildcardType |-> WildcardTypeNone, Answers |-> {}, found |-> TRUE,
                 beingTested |-> TRUE]

\* processDNSRequest and processSubdomain with no verdict that ends them
GetWildcardRejects_Never(t) == FALSE

\* processDNSRequest and processSubdomain: GetWildcardType(ctx, req) ==
\* WildcardTypeDynamic ends the goroutine of an untrusted request
GetWildcardRejects(t) == t = WildcardTypeDynamic

\* MatchesWildcard: every verdict but None is a match
MatchesWildcard(t) == t # WildcardTypeNone

DnsRequest(name, tag) == [Name |-> name, Domain |-> RootDomain, Tag |-> tag, Records |-> {}]

\* the requests handed to the DNS service: nil (no name and no domain), or
\* a name under the root domain with a tag
DnsInputs == {NoDnsReq} \cup { DnsRequest(name, tag) : name \in DnsNames, tag \in Tags }

\* processDNSRequest: the request is nil or has no name or no domain
DnsInvalid(req) == req.Name = <<>> \/ req.Domain = <<>>

\* a return of the goroutine of call c; processDNSRequest returns through
\* its deferred Release(1)
DnsReturn(c, release) ==
    /\ dpc' = [dpc EXCEPT ![c] = "done"]
    /\ dreq' = [dreq EXCEPT ![c] = NoDnsReq]
    /\ dret' = [dret EXCEPT ![c] = "none"]
    /\ hwIdx' = [hwIdx EXCEPT ![c] = -1]
    /\ semPermits' = IF release THEN semPermits + 1 ELSE semPermits

\* the goroutine of call c goes on at position pc with request req
DnsGoto(c, pc, req) ==
    /\ dpc' = [dpc EXCEPT ![c] = pc]
    /\ dreq' = [dreq EXCEPT ![c] = req]
    /\ dret' = [dret EXCEPT ![c] = "none"]
    /\ hwIdx' = [hwIdx EXCEPT ![c] = -1]
    /\ UNCHANGED semPermits

\* GetWildcardType / MatchesWildcard: the goroutine of call c enters
\* hasWildcard, whose loop starts at the root domain; ret is the place the
\* verdict is returned to
HasWildcardCall(c, req, ret) ==
    /\ dpc' = [dpc EXCEPT ![c] = "hw_fetch"]
    /\ dreq' = [dreq EXCEPT ![c] = req]
    /\ dret' = [dret EXCEPT ![c] = ret]
    /\ hwIdx' = [hwIdx EXCEPT ![c] = FirstLevel(req)]
    /\ UNCHANGED semPermits

\* processDNSRequest after the wildcard check: the queries of a root domain
\* come first
AfterGate(ret, req) ==
    IF ret = "sub_gate" THEN "sub_queries"
    ELSE IF req.Name = req.Domain THEN "dns_queries"
    ELSE "dns_initial"

\* hasWildcard returns verdict t to its caller. processDNSRequest and
\* processSubdomain return on Dynamic and go on to their queries otherwise;
\* resolvedName returns on a match and goes on to the publication otherwise
HasWildcardReturn(c, t) ==
    LET req == dreq[c] IN
    /\ hw' = [Name |-> req.Name, Records |-> req.Records, Type |-> t, Ret |-> dret[c]]
    /\ IF dret[c] = "resolved"
       THEN IF MatchesWildcard(t)
            THEN DnsReturn(c, TRUE)
            ELSE DnsGoto(c, "dns_publish", req)
       ELSE IF GetWildcardRejects(t)
            THEN DnsReturn(c, dret[c] = "dns_gate")
            ELSE DnsGoto(c, AfterGate(dret[c], req), req)

\* hasWildcard: one iteration of the loop. fetchWildcardType sends the
\* suffix to manageWildcards, which answers with a cached entry; the entry
\* decides the call or the loop goes on to the next label, and after the
\* last one to checkIPsAcrossLevels. For a suffix without an entry the
\* manager stores the entry of a running test and starts the test; that
\* request, and a request for a suffix under test, is handed to
\* resendWildcardReq.
HasWildcard(c) ==
    /\ dpc[c] = "hw_fetch"
    /\ LET req == dreq[c]
           sub == Suffix(WildcardLabels(req), hwIdx[c])
           w   == wildcards[sub]
       IN  IF w.found /\ ~w.beingTested
           THEN /\ UNCHANGED wildcards
                /\ IF LevelVerdict(w, req.Records) # -1
                   THEN HasWildcardReturn(c, LevelVerdict(w, req.Records))
                   ELSE /\ hwIdx' = [hwIdx EXCEPT ![c] = @ - 1]
                        /\ dpc' = [dpc EXCEPT ![c] = IF hwIdx[c] = 0 THEN "hw_across"
                                                     ELSE "hw_fetch"]
                        /\ hw' = NoCall
                        /\ UNCHANGED <<dreq, dret, semPermits>>
           ELSE /\ wildcards' = IF w.found THEN wildcards
                                ELSE [wildcards EXCEPT ![sub] = TestingEntry]
                /\ dpc' = [dpc EXCEPT ![c] = "hw_resend"]
                /\ hw' = NoCall
                /\ UNCHANGED <<dreq, dret, hwIdx, semPermits>>
    /\ UNCHANGED <<dnsFrame, published>>

\* resendWildcardReq: after the sleep the request of call c goes back to
\* manageWildcards
DnsResendWildcardReq(c) ==
    /\ dpc[c] = "hw_resend"
    /\ dpc' = [dpc EXCEPT ![c] = "hw_fetch"]
    /\ hw' = NoCall
    /\ UNCHANGED <<dnsFrame, wildcards, dreq, dret, hwIdx, published, semPermits>>

\* wildcardTest of a suffix under test sends its result, and manageWildcards
\* (case TestResult) puts it in the place of the entry
DnsWildcardTest(sub) ==
    /\ wildcards[sub].found
    /\ wildcards[sub].beingTested
    /\ \E w \in TestResults : wildcards' = [wildcards EXCEPT ![sub] = w]
    /\ hw' = NoCall
    /\ UNCHANGED <<dnsFrame, dpc, dreq, dret, hwIdx, published, semPermits>>

\* hasWildcard: checkIPsAcrossLevels, answered by manageWildcards from the
\* map as it is then
CheckIPsAcrossLevels(c) ==
    /\ dpc[c] = "hw_across"
    /\ HasWildcardReturn(c, IPsAcrossLevels(wildcards, dreq[c]))
    /\ UNCHANGED <<dnsFrame, wildcards, published>>

\* OnDNSRequest: Acquire(1) on the DNS-query semaphore, then the goroutine
\* of processDNSRequest is started
OnDNSRequest(c) ==
    /\ dpc[c] = "idle"
    /\ \A b \in DnsCalls : b < c => dpc[b] # "idle"
    /\ CanAcquire(semPermits)
    /\ semPermits' = semPermits - 1
    /\ \E req \in DnsInputs : dreq' = [dreq EXCEPT ![c] = req]
    /\ dpc' = [dpc EXCEPT ![c] = "dns_start"]
    /\ hw' = NoCall
    /\ UNCHANGED <<dnsFrame, wildcards, dret, hwIdx, published>>

\* processDNSRequest up to the queries: a nil request, a request without a
\* name or a domain and a context without configuration or bus end the
\* goroutine; so do a blacklisted name and an untrusted request of wildcard
\* type Dynamic
ProcessDNSRequest(c) ==
    /\ dpc[c] = "dns_start"
    /\ LET req == dreq[c] IN
       \E ctx \in BOOLEAN :
         IF DnsInvalid(req) \/ ~ctx \/ Blacklisted(req.Name)
         THEN DnsReturn(c, TRUE)
         ELSE IF TrustedTag(req.Tag)
         THEN DnsGoto(c, AfterGate("dns_gate", req), req)
         ELSE HasWildcardCall(c, req, "dns_gate")
    /\ hw' = NoCall
    /\ UNCHANGED <<dnsFrame, wildcards, published>>

\* OnSubdomainDiscovered: the goroutine of processSubdomain is started for
\* a request that is not nil and a subdomain seen for the first time
OnSubdomainDiscovered(c) ==
    /\ dpc[c] = "idle"
    /\ \A b \in DnsCalls : b < c => dpc[b] # "idle"
    /\ \E req \in DnsInputs, times \in 1..MaxDnsTimes :
         IF req # NoDnsReq /\ times = 1
         THEN DnsGoto(c, "sub_start", req)
         ELSE DnsReturn(c, FALSE)
    /\ hw' = NoCall
    /\ UNCHANGED <<dnsFrame, wildcards, published>>

\* processSubdomain up to the queries: a context without configuration, a
\* blacklisted name and an untrusted request of wildcard type Dynamic end
\* the goroutine
ProcessSubdomain(c) ==
    /\ dpc[c] = "sub_start"
    /\ LET req == dreq[c] IN
       \E ctx \in BOOLEAN :
         IF ~ctx \/ Blacklisted(req.Name)
         THEN DnsReturn(c, FALSE)
         ELSE IF TrustedTag(req.Tag)
         THEN DnsGoto(c, "sub_queries", req)
         ELSE HasWildcardCall(c, req, "sub_gate")
    /\ hw' = NoCall
    /\ UNCHANGED <<dnsFrame, wildcards, published>>

\* the record data of an NS answer
NsData == "ns1"

\* the names a transfer of the zone of sub can give: those of the names of
\* the model that lie directly under it
XfrNames(sub) == { n \in DnsNames : Len(n) = Len(sub) + 1 /\ Suffix(n, 1) = sub }

\* whether the NS query of this call is answered: up to MaxXfr answers to
\* an active configuration in one behaviour
NsAnswered ==
    IF Cardinality({ c \in DnsCalls : xpc[c] # "none" }) < MaxXfr THEN BOOLEAN ELSE {FALSE}

\* subdomainQueries up to the NS query: the queries of the initial types
\* and of NS. An NS answer is among the answers, and in active mode it
\* starts the goroutine of attemptZoneXFR (the NS query has one answer),
\* before the queries that follow
SubdomainQueries(c) ==
    /\ dpc[c] \in {"dns_queries", "sub_queries"}
    /\ \E initial \in RecordSets, ns \in NsAnswered :
         /\ danswers' = [danswers EXCEPT ![c] = (initial # {} \/ ns)]
         /\ IF ns /\ dnsActive
            THEN /\ xpc' = [xpc EXCEPT ![c] = "start"]
                 /\ xsub' = [xsub EXCEPT ![c] = dreq[c].Name]
            ELSE UNCHANGED <<xpc, xsub>>
    /\ DnsGoto(c, IF dpc[c] = "dns_queries" THEN "dns_mx" ELSE "sub_mx", dreq[c])
    /\ hw' = NoCall
    /\ UNCHANGED <<dnsOther, wildcards, published, dnsActive, xleft>>

\* subdomainQueries from the MX query on: the queries of MX, SOA and SPF;
\* with an answer to any query of the call, resolvedName publishes the
\* name with the tag DNS
SubdomainAnswers(c) ==
    /\ dpc[c] \in {"dns_mx", "sub_mx"}
    /\ \E others \in RecordSets :
         published' = IF danswers[c] \/ others # {}
                      THEN published \cup {[Name |-> dreq[c].Name, Tag |-> "dns"]}
                      ELSE published
    /\ danswers' = [danswers EXCEPT ![c] = FALSE]
    /\ DnsGoto(c, IF dpc[c] = "dns_mx" THEN "dns_srv" ELSE "sub_srv", dreq[c])
    /\ hw' = NoCall
    /\ UNCHANGED <<dnsOther, wildcards, dnsActive, xpc, xsub, xleft>>

\* attemptZoneXFR up to its loop: without an address of the name server, or
\* with an error of the transfer, the goroutine ends; otherwise the transfer
\* gives the requests of the zone, which carry the tag AXFR
AttemptZoneXFR(c) ==
    /\ xpc[c] = "start"
    /\ \E addr \in BOOLEAN, err \in BOOLEAN, reqs \in SUBSET XfrNames(xsub[c]) :
         IF ~addr \/ err \/ reqs = {}
         THEN xpc' = [xpc EXCEPT ![c] = "done"] /\ UNCHANGED xleft
         ELSE xpc' = [xpc EXCEPT ![c] = "loop"] /\ xleft' = [xleft EXCEPT ![c] = reqs]
    /\ xsub' = [xsub EXCEPT ![c] = <<>>]
    /\ hw' = NoCall
    /\ UNCHANGED <<dnsOther, wildcards, dpc, dreq, dret, hwIdx, published, semPermits,
                   dnsActive, danswers>>

\* attemptZoneXFR, one iteration of its loop: resolvedName on a request of
\* the transfer, which publishes it on the NameResolved topic; its tag is
\* trusted, so MatchesWildcard is not asked. The goroutine ends after the
\* last request
XfrResolvedName(c) ==
    /\ xpc[c] = "loop"
    /\ \E name \in xleft[c] :
         /\ TrustedTag(AXFR)
         /\ published' = published \cup {[Name |-> name, Tag |-> AXFR]}
         /\ xleft' = [xleft EXCEPT ![c] = @ \ {name}]
         /\ xpc' = [xpc EXCEPT ![c] = IF xleft[c] = {name} THEN "done" ELSE "loop"]
    /\ hw' = NoCall
    /\ UNCHANGED <<dnsOther, wildcards, dpc, dreq, dret, hwIdx, semPermits,
                   dnsActive, xsub, danswers>>

\* queryServiceNames: the SRV query of a popular name; without an error,
\* resolvedName publishes the SRV name with the tag DNS. processSubdomain
\* ends here, processDNSRequest goes on
QueryServiceNames(c) ==
    /\ dpc[c] \in {"dns_srv", "sub_srv"}
    /\ \E srv \in BOOLEAN :
         published' = IF srv
                      THEN published \cup {[Name |-> <<SrvLabel>> \o dreq[c].Name,
                                            Tag |-> "dns"]}
                      ELSE published
    /\ IF dpc[c] = "dns_srv"
       THEN DnsGoto(c, "dns_initial", dreq[c])
       ELSE DnsReturn(c, FALSE)
    /\ hw' = NoCall
    /\ UNCHANGED <<dnsFrame, wildcards>>

\* processDNSRequest: queryInitialTypes gives the records of the request; a
\* request without records ends the goroutine
QueryInitialTypes(c) ==
    /\ dpc[c] = "dns_initial"
    /\ \E records \in RecordSets :
         IF records = {}
         THEN DnsReturn(c, TRUE)
         ELSE DnsGoto(c, "dns_resolved", [dreq[c] EXCEPT !.Records = records])
    /\ hw' = NoCall
    /\ UNCHANGED <<dnsFrame, wildcards, published>>

\* resolvedName: a trusted request goes to the publication, an untrusted
\* one to MatchesWildcard
ResolvedName(c) ==
    /\ dpc[c] = "dns_resolved"
    /\ IF TrustedTag(dreq[c].Tag)
       THEN DnsGoto(c, "dns_publish", dreq[c])
       ELSE HasWildcardCall(c, dreq[c], "resolved")
    /\ hw' = NoCall
    /\ UNCHANGED <<dnsFrame, wildcards, published>>

\* resolvedName: the publication on the NameResolved topic, after which
\* processDNSRequest returns
PublishResolved(c) ==
    /\ dpc[c] = "dns_publish"
    /\ published' = published \cup {[Name |-> dreq[c].Name, Tag |-> dreq[c].Tag]}
    /\ DnsReturn(c, TRUE)
    /\ hw' = NoCall
    /\ UNCHANGED <<dnsFrame, wildcards>>

DnsInit ==
    /\ DnsIdle
    /\ dnsActive \in BOOLEAN
    /\ PoolStart
    /\ HdStart
    /\ SdStart
    /\ DcStart
    /\ IdStart
    /\ RotStart
    /\ DupStart
    /\ TimesStart
    /\ BackoffStart
    /\ SqStart
    /\ enPassive = FALSE
    /\ enMaxDNS = MaxDNSQ
    /\ EnumStart
    /\ DomStart
    /\ domSrcs = MaxSrcs
    /\ domHasDns = TRUE
    /\ WcStart
    /\ semSize \in 1..MaxSem
    /\ SemStart
    /\ busMax = MaxBusSem
    /\ BusStart
    /\ FilterStart
    /\ ResStart
    /\ filterMaxSize = MaxFilterSize

DnsNext ==
    \/ \E c \in DnsCalls : OnDNSRequest(c)
    \/ \E c \in DnsCalls : ProcessDNSRequest(c)
    \/ \E c \in DnsCalls : OnSubdomainDiscovered(c)
    \/ \E c \in DnsCalls : ProcessSubdomain(c)
    \/ \E c \in DnsCalls : HasWildcard(c)
    \/ \E c \in DnsCalls : DnsResendWildcardReq(c)
    \/ \E sub \in WildSubs : DnsWildcardTest(sub)
    \/ \E c \in DnsCalls : CheckIPsAcrossLevels(c)
    \/ \E c \in DnsCalls : SubdomainQueries(c)
    \/ \E c \in DnsCalls : SubdomainAnswers(c)
    \/ \E c \in DnsCalls : AttemptZoneXFR(c)
    \/ \E c \in DnsCalls : XfrResolvedName(c)
    \/ \E c \in DnsCalls : QueryServiceNames(c)
    \/ \E c \in DnsCalls : QueryInitialTypes(c)
    \/ \E c \in DnsCalls : ResolvedName(c)
    \/ \E c \in DnsCalls : PublishResolved(c)

DnsSpec == DnsInit /\ [][DnsNext]_vars

-----------------------------------------------------------------------------
(* The base resolver: Resolve, Stop, sendQueries / writeMessage, the       *)
(* readers and processMessage / tcpExchange, checkForTimeouts, and the     *)
(* goroutine manageXchgState that owns the map of the requests in flight.  *)
(* AddRequest, AddTimeout and DelTimeout are sent and forgotten: the send  *)
(* and the handling by the manager are different steps, and the manager's  *)
(* select takes any channel that has a message.  GetID, AllTimeoutIDs and  *)
(* PullRequest are calls: the caller waits for the answer of the manager,  *)
(* so the call is one step, taken when the manager handles the message.    *)

stateVars == <<stopped, stopSent, stpc, resPanic, xchgDone, mgrAlive>>
senderVars == <<spc, sreq, sid>>
mapVars == <<xchgs, timeouts>>
chanVars == <<chAddRequest, chAddTimeout, chDelTimeout>>
netVars == <<wire, wid>>
pmVars == <<pmpc, pmreq>>
sweepVars == <<swpc, swIds>>

\* makeResolveResult
MakeResolveResult(again, err, rcode) == [rcode |-> rcode, again |-> again, err |-> err]

\* a step in which no Resolve call returns
NoReturn == lres' = {} /\ UNCHANGED <<xchgQueues, rpc, rprio, nres>>

\* Available on a stopped resolver: a ResolveError with a message only
AvailableErr == MakeResolveResult(TRUE, "stopped", 0)

\* Resolve, the result of a call that is not queued
ResolveReturns(c, res) ==
    /\ rpc' = [rpc EXCEPT ![c] = "returned"]
    /\ lres' = {[req |-> c] @@ res}
    /\ UNCHANGED <<xchgQueues, rprio, nres>>

\* Resolve up to the answer of Available: the priority is checked,
\* manageResolverState answers IsStopped, and the type of the query is
\* looked up; a call that passes goes on to the append
Resolve(c) ==
    /\ ~resPanic
    /\ rpc[c] = "idle"
    /\ \A b \in ResReqs : b < c => rpc[b] # "idle"
    /\ \E priority \in {PriorityLow, PriorityCritical, 3}, qtypeOk \in BOOLEAN :
         IF priority \notin Priorities
         THEN ResolveReturns(c, MakeResolveResult(FALSE, "priority", ResolverErrRcode))
         ELSE IF stopped
         THEN ResolveReturns(c, AvailableErr)
         ELSE IF ~qtypeOk
         THEN ResolveReturns(c, MakeResolveResult(FALSE, "qtype", ResolverErrRcode))
         ELSE /\ rpc' = [rpc EXCEPT ![c] = "available"]
              /\ rprio' = [rprio EXCEPT ![c] = priority]
              /\ lres' = {}
              /\ UNCHANGED <<xchgQueues, nres>>
    /\ UNCHANGED <<notResVars, stateVars, senderVars, mapVars, chanVars, netVars, pmVars,
                   sweepVars>>

\* Resolve after Available: the request is appended to the queue of its
\* priority, whatever has happened to the resolver meanwhile, and the call
\* waits for the result
ResolveAppend(c) ==
    /\ ~resPanic
    /\ rpc[c] = "available"
    /\ xchgQueues' = [xchgQueues EXCEPT ![rprio[c]] = Append(@, c)]
    /\ rpc' = [rpc EXCEPT ![c] = "queued"]
    /\ rprio' = [rprio EXCEPT ![c] = PriorityLow]
    /\ lres' = {}
    /\ UNCHANGED nres
    /\ UNCHANGED <<notResVars, stateVars, senderVars, mapVars, chanVars, netVars, pmVars,
                   sweepVars>>

\* returnRequest for each request of got: a result is sent on its Result
\* channel, and the Resolve call that waits for it returns it
DeliverAll(got, res) ==
    /\ nres' = [c \in ResReqs |-> IF c \in got THEN nres[c] + 1 ELSE nres[c]]
    /\ rpc' = [c \in ResReqs |-> IF c \in got /\ rpc[c] = "queued" THEN "returned" ELSE rpc[c]]
    /\ lres' = { [req |-> c] @@ res : c \in { b \in got : rpc[b] = "queued" } }
    /\ UNCHANGED <<xchgQueues, rprio>>

\* returnRequest
Deliver(c, res) == DeliverAll({c}, res)

\* initStateManagement: the capacity of StopResolver
StopChanSize == 2

\* Stop up to the answer of IsStopped: a call on a resolver that is stopped
\* returns
Stop(k) ==
    /\ ~resPanic
    /\ stpc[k] = "idle"
    /\ \A j \in StopCalls : j < k => stpc[j] # "idle"
    /\ stpc' = [stpc EXCEPT ![k] = IF stopped THEN "done" ELSE "send"]
    /\ NoReturn
    /\ UNCHANGED <<notResVars, stopped, stopSent, resPanic, xchgDone, mgrAlive, senderVars,
                   mapVars, chanVars, netVars, pmVars, sweepVars>>

\* Stop: the send on StopResolver, which waits while the channel is full
StopSend(k) ==
    /\ ~resPanic
    /\ stpc[k] = "send"
    /\ stopSent < StopChanSize
    /\ stopSent' = stopSent + 1
    /\ stpc' = [stpc EXCEPT ![k] = "close"]
    /\ NoReturn
    /\ UNCHANGED <<notResVars, stopped, resPanic, xchgDone, mgrAlive, senderVars,
                   mapVars, chanVars, netVars, pmVars, sweepVars>>

\* Stop: close(r.xchgsChannels.Done); the close of a closed channel panics
StopClose(k) ==
    /\ ~resPanic
    /\ stpc[k] = "close"
    /\ IF xchgDone
       THEN resPanic' = TRUE /\ UNCHANGED xchgDone
       ELSE xchgDone' = TRUE /\ UNCHANGED resPanic
    /\ stpc' = [stpc EXCEPT ![k] = "done"]
    /\ NoReturn
    /\ UNCHANGED <<notResVars, stopped, stopSent, mgrAlive, senderVars, mapVars, chanVars,
                   netVars, pmVars, sweepVars>>

\* manageResolverState, case StopResolver
ManageResolverState ==
    /\ ~resPanic
    /\ stopSent > 0
    /\ stopped' = TRUE
    /\ stopSent' = stopSent - 1
    /\ NoReturn
    /\ UNCHANGED <<notResVars, stpc, resPanic, xchgDone, mgrAlive, senderVars, mapVars,
                   chanVars, netVars, pmVars, sweepVars>>

\* manageXchgState, case Done
MgrDone ==
    /\ ~resPanic
    /\ mgrAlive /\ xchgDone
    /\ mgrAlive' = FALSE
    /\ NoReturn
    /\ UNCHANGED <<notResVars, stopped, stopSent, stpc, resPanic, xchgDone, senderVars,
                   mapVars, chanVars, netVars, pmVars, sweepVars>>

RECURSIVE NextIDFrom(_, _, _)
\* nextID: the first ID without an entry, from i upwards and around
NextIDFrom(map, i, n) ==
    IF n = 0 THEN -1
    ELSE IF map[i] = NoEntry THEN i
    ELSE NextIDFrom(map, (i + 1) % MaxIDs, n - 1)

\* nextID with dns.Id() = start; -1 when the loop does not end
NextID(map, start) == NextIDFrom(map, start, MaxIDs)

\* sendQueries finds a request in the queue p its pass is at, and
\* writeMessage sends its getID.  Requests are appended while a pass runs, so
\* the pass can be at any queue that has a request; SenderSpec follows the
\* passes step by step.
SendQueries(p) ==
    /\ ~resPanic
    /\ spc = "idle"
    /\ xchgQueues[p] # <<>>
    /\ sreq' = Head(xchgQueues[p])
    /\ xchgQueues' = [xchgQueues EXCEPT ![p] = Tail(@)]
    /\ spc' = "getid"
    /\ lres' = {}
    /\ UNCHANGED <<notResVars, stateVars, rpc, rprio, nres, sid, mapVars, chanVars, netVars,
                   pmVars, sweepVars>>

\* manageXchgState, case GetID: nextID stores a placeholder under the ID it
\* hands out, and writeMessage goes on with it.  A nextID that finds no free
\* ID loops, and the call does not return.
GetID ==
    /\ ~resPanic
    /\ spc = "getid"
    /\ mgrAlive
    /\ \E start \in IDs :
         IF NextID(xchgs, start) = -1
         THEN /\ mgrAlive' = FALSE
              /\ spc' = "blocked"
              /\ UNCHANGED <<sid, xchgs>>
         ELSE /\ xchgs' = [xchgs EXCEPT ![NextID(xchgs, start)] =
                             [req |-> sreq, ph |-> TRUE, old |-> FALSE]]
              /\ sid' = NextID(xchgs, start)
              /\ spc' = "write"
              /\ UNCHANGED mgrAlive
    /\ NoReturn
    /\ UNCHANGED <<notResVars, stopped, stopSent, stpc, resPanic, xchgDone, sreq, timeouts,
                   chanVars, netVars, pmVars, sweepVars>>

\* writeMessage after getID: the query is written, and queueRequest sends the
\* request and its timeout registration; or the write fails, and pullRequest
\* starts with delTimeout
WriteMessage ==
    /\ ~resPanic
    /\ spc = "write"
    /\ \E ok \in BOOLEAN :
         IF ok
         THEN /\ wire' = [wire EXCEPT ![sreq] = "sent"]
              /\ wid' = [wid EXCEPT ![sreq] = sid]
              /\ chAddRequest' = Append(chAddRequest, [req |-> sreq, id |-> sid, old |-> FALSE])
              /\ chAddTimeout' = Append(chAddTimeout, sid)
              /\ spc' = "idle"
              /\ sreq' = 0
              /\ sid' = 0
              /\ UNCHANGED chDelTimeout
         ELSE /\ chDelTimeout' = Append(chDelTimeout, sid)
              /\ spc' = "pull"
              /\ UNCHANGED <<wire, wid, chAddRequest, chAddTimeout, sreq, sid>>
    /\ NoReturn
    /\ UNCHANGED <<notResVars, stateVars, mapVars, pmVars, sweepVars>>

\* manageXchgState, case PullRequest: the request is found, and the timeout
\* of the message, if it has one, has passed
TimePassed(e, timeout) == e # NoEntry /\ (~timeout \/ e.old)

\* manageXchgState, case PullRequest: what is sent back for the ID
Pulled(id, timeout) == IF TimePassed(xchgs[id], timeout) THEN xchgs[id] ELSE NilReq

\* manageXchgState, case PullRequest: delete(xchgs, pReq.ID)
DeleteEntry(map, id) == [map EXCEPT ![id] = NoEntry]

\* manageXchgState, case PullRequest: the map after the message
AfterPull(id, timeout) ==
    IF Pulled(id, timeout) # NilReq THEN DeleteEntry(xchgs, id) ELSE xchgs

\* writeMessage after the failed write: the manager answers pullRequest for
\* the ID of the message, and the request fails
WriteFailed ==
    /\ ~resPanic
    /\ spc = "pull"
    /\ mgrAlive
    /\ xchgs' = AfterPull(sid, FALSE)
    /\ Deliver(sreq, MakeResolveResult(TRUE, "write", TimeoutRcode))
    /\ spc' = "idle"
    /\ sreq' = 0
    /\ sid' = 0
    /\ UNCHANGED <<notResVars, stateVars, timeouts, chanVars, netVars, pmVars, sweepVars>>

\* Resolve of the version whose requests carry their message (part_005), a
\* pass of its loop up to queueQuery: manageXchgState answers getID, and
\* nextID stores a placeholder under the ID of the message
QueryMessage(c) ==
    /\ ~resPanic
    /\ rpc[c] = "idle"
    /\ \A b \in ResReqs : b < c => rpc[b] # "idle"
    /\ mgrAlive
    /\ \E start \in IDs :
         IF NextID(xchgs, start) = -1
         THEN /\ mgrAlive' = FALSE
              /\ rpc' = [rpc EXCEPT ![c] = "blocked"]
              /\ UNCHANGED <<wid, xchgs>>
         ELSE /\ xchgs' = [xchgs EXCEPT ![NextID(xchgs, start)] =
                             [req |-> c, ph |-> TRUE, old |-> FALSE]]
              /\ wid' = [wid EXCEPT ![c] = NextID(xchgs, start)]
              /\ rpc' = [rpc EXCEPT ![c] = "message"]
              /\ UNCHANGED mgrAlive
    /\ lres' = {}
    /\ UNCHANGED <<xchgQueues, rprio, nres>>
    /\ UNCHANGED <<notResVars, stopped, stopSent, stpc, resPanic, xchgDone, senderVars,
                   timeouts, chanVars, wire, pmVars, sweepVars>>

\* queueQuery: the request is appended with its message, and the call waits
\* for the result
QueueQuery(c) ==
    /\ ~resPanic
    /\ rpc[c] = "message"
    /\ \E priority \in {PriorityLow, PriorityCritical} :
         xchgQueues' = [xchgQueues EXCEPT ![priority] = Append(@, c)]
    /\ rpc' = [rpc EXCEPT ![c] = "queued"]
    /\ lres' = {}
    /\ UNCHANGED <<rprio, nres>>
    /\ UNCHANGED <<notResVars, stateVars, senderVars, mapVars, chanVars, netVars, pmVars,
                   sweepVars>>

\* sendQueries and writeMessage of that version up to the write: the
\* request is taken from the queue, and queueRequest sends it and its
\* timeout registration before the message is written
QueueRequestFirst(p) ==
    /\ ~resPanic
    /\ spc = "idle"
    /\ xchgQueues[p] # <<>>
    /\ sreq' = Head(xchgQueues[p])
    /\ sid' = wid[Head(xchgQueues[p])]
    /\ xchgQueues' = [xchgQueues EXCEPT ![p] = Tail(@)]
    /\ chAddRequest' = Append(chAddRequest, [req |-> Head(xchgQueues[p]),
                                              id |-> wid[Head(xchgQueues[p])], old |-> FALSE])
    /\ chAddTimeout' = Append(chAddTimeout, wid[Head(xchgQueues[p])])
    /\ spc' = "write_queued"
    /\ lres' = {}
    /\ UNCHANGED <<notResVars, stateVars, rpc, rprio, nres, mapVars, chDelTimeout, netVars,
                   pmVars, sweepVars>>

\* writeMessage of that version, co.WriteMsg with its deadline of 10 s: the
\* query is written, or the write fails and pullRequest starts with
\* delTimeout; the result of the failure is sent whatever pullRequest
\* returns (WriteFailed)
WriteQueued ==
    /\ ~resPanic
    /\ spc = "write_queued"
    /\ \E ok \in BOOLEAN :
         IF ok
         THEN /\ wire' = [wire EXCEPT ![sreq] = "sent"]
              /\ spc' = "idle"
              /\ sreq' = 0
              /\ sid' = 0
              /\ UNCHANGED chDelTimeout
         ELSE /\ chDelTimeout' = Append(chDelTimeout, sid)
              /\ spc' = "pull"
              /\ UNCHANGED <<wire, sreq, sid>>
    /\ NoReturn
    /\ UNCHANGED <<notResVars, stateVars, mapVars, chAddRequest, chAddTimeout, wid, pmVars,
                   sweepVars>>

\* manageXchgState, case AddTimeout
MgrAddTimeout ==
    /\ ~resPanic
    /\ mgrAlive /\ chAddTimeout # <<>>
    /\ timeouts' = timeouts \cup {Head(chAddTimeout)}
    /\ chAddTimeout' = Tail(chAddTimeout)
    /\ NoReturn
    /\ UNCHANGED <<notResVars, stateVars, senderVars, xchgs, chAddRequest,
                   chDelTimeout, netVars, pmVars, sweepVars>>

\* manageXchgState, case DelTimeout
MgrDelTimeout ==
    /\ ~resPanic
    /\ mgrAlive /\ chDelTimeout # <<>>
    /\ timeouts' = timeouts \ {Head(chDelTimeout)}
    /\ chDelTimeout' = Tail(chDelTimeout)
    /\ NoReturn
    /\ UNCHANGED <<notResVars, stateVars, senderVars, xchgs, chAddRequest,
                   chAddTimeout, netVars, pmVars, sweepVars>>

\* manageXchgState, case AddRequest
MgrAddRequest ==
    /\ ~resPanic
    /\ mgrAlive /\ chAddRequest # <<>>
    /\ xchgs' = [xchgs EXCEPT ![Head(chAddRequest).id] =
                    [req |-> Head(chAddRequest).req, ph |-> FALSE,
                     old |-> Head(chAddRequest).old]]
    /\ chAddRequest' = Tail(chAddRequest)
    /\ NoReturn
    /\ UNCHANGED <<notResVars, stateVars, senderVars, timeouts, chAddTimeout,
                   chDelTimeout, netVars, pmVars, sweepVars>>

\* readMessages: a reply to the query of request c is read, and processMessage
\* starts pullRequest for the ID of the reply with delTimeout
ReadMessages(c) ==
    /\ ~resPanic
    /\ wire[c] = "sent"
    /\ wire' = [wire EXCEPT ![c] = "replied"]
    /\ pmpc' = [pmpc EXCEPT ![c] = "pull"]
    /\ chDelTimeout' = Append(chDelTimeout, wid[c])
    /\ NoReturn
    /\ UNCHANGED <<notResVars, stateVars, senderVars, mapVars, chAddRequest,
                   chAddTimeout, wid, pmreq, sweepVars>>

\* the replies a query can get
ReplyKinds == {"ok", "norecords", "servfail", "nxdomain", "truncated"}

\* finishProcessing(m, req): a reply without answers gives an error with
\* the rcode of the reply, and again is not set
FinishProcessing(answers, rcode) ==
    IF answers THEN MakeResolveResult(FALSE, "", RcodeSuccess)
    ELSE MakeResolveResult(FALSE, "norecords", rcode)

\* processMessage: the result of a reply that is not truncated
ReplyResult(kind) ==
    IF kind = "servfail"
    THEN MakeResolveResult(RcodeServerFailure \in RetryCodes, "rcode", RcodeServerFailure)
    ELSE IF kind = "nxdomain"
    THEN MakeResolveResult(RcodeNameError \in RetryCodes, "rcode", RcodeNameError)
    ELSE FinishProcessing(kind = "ok", RcodeSuccess)

\* returnRequest in processMessage and tcpExchange for the request req that
\* was pulled: the send on the Result channel of the placeholder of nextID,
\* which is nil, never returns
PmReturn(c, req, res) ==
    /\ wid' = [wid EXCEPT ![c] = 0]
    /\ IF req.ph
       THEN /\ pmpc' = [pmpc EXCEPT ![c] = "blocked"]
            /\ NoReturn
       ELSE /\ pmpc' = [pmpc EXCEPT ![c] = "done"]
            /\ Deliver(req.req, res)

\* processMessage: the manager answers pullRequest; a reply that matches no
\* entry is dropped, a truncated reply goes to tcpExchange, any other reply
\* gives the result of the request
ProcessMessage(c) ==
    /\ ~resPanic
    /\ pmpc[c] = "pull"
    /\ mgrAlive
    /\ xchgs' = AfterPull(wid[c], FALSE)
    /\ IF Pulled(wid[c], FALSE) = NilReq
       THEN /\ pmpc' = [pmpc EXCEPT ![c] = "dropped"]
            /\ wid' = [wid EXCEPT ![c] = 0]
            /\ NoReturn /\ UNCHANGED pmreq
       ELSE \E kind \in ReplyKinds :
              IF kind = "truncated"
              THEN /\ pmpc' = [pmpc EXCEPT ![c] = "tcp"]
                   /\ pmreq' = [pmreq EXCEPT ![c] = [Pulled(wid[c], FALSE) EXCEPT !.old = FALSE]]
                   /\ NoReturn /\ UNCHANGED wid
              ELSE /\ PmReturn(c, Pulled(wid[c], FALSE), ReplyResult(kind))
                   /\ UNCHANGED pmreq
    /\ UNCHANGED <<notResVars, stateVars, senderVars, timeouts, chanVars, wire, sweepVars>>

\* what the exchange over TCP can come to: a reply with answers, a reply
\* without answers whose rcode is Success or SERVFAIL, a failure to connect,
\* a failure to write or to read
TcpOutcomes == {"ok", "norecords", "servfail", "dial", "io"}

\* tcpExchange with the ID of the truncated reply: the exchange ends with a
\* reply, which goes to finishProcessing whatever its rcode, or it fails and
\* pullRequest for that ID starts with delTimeout
TcpExchange(c) ==
    /\ ~resPanic
    /\ pmpc[c] = "tcp"
    /\ \E out \in TcpOutcomes :
         IF out \in {"ok", "norecords", "servfail"}
         THEN /\ PmReturn(c, pmreq[c],
                          FinishProcessing(out = "ok", IF out = "servfail"
                                                       THEN RcodeServerFailure
                                                       ELSE RcodeSuccess))
              /\ pmreq' = [pmreq EXCEPT ![c] = NilReq]
              /\ UNCHANGED chDelTimeout
         ELSE /\ pmpc' = [pmpc EXCEPT ![c] = "tcp_" \o out]
              /\ chDelTimeout' = Append(chDelTimeout, wid[c])
              /\ NoReturn /\ UNCHANGED <<pmreq, wid>>
    /\ UNCHANGED <<notResVars, stateVars, senderVars, mapVars, chAddRequest, chAddTimeout,
                   wire, sweepVars>>

\* tcpExchange after the failure: the manager answers pullRequest for the ID
\* of the message, and the request of the truncated reply fails
TcpFailed(c) ==
    /\ ~resPanic
    /\ pmpc[c] \in {"tcp_dial", "tcp_io"}
    /\ mgrAlive
    /\ xchgs' = AfterPull(wid[c], FALSE)
    /\ PmReturn(c, pmreq[c], IF pmpc[c] = "tcp_dial"
                             THEN MakeResolveResult(TRUE, "tcp", NotAvailableRcode)
                             ELSE MakeResolveResult(TRUE, "tcp", TimeoutRcode))
    /\ pmreq' = [pmreq EXCEPT ![c] = NilReq]
    /\ UNCHANGED <<notResVars, stateVars, senderVars, timeouts, chanVars, wire, sweepVars>>

\* the orders in which a range over the IDs of S can visit them
Orders(S) == { f \in [1..Cardinality(S) -> S] : \A i, j \in DOMAIN f : i # j => f[i] # f[j] }

\* checkForTimeouts, a firing of the ticker: the manager answers
\* allTimeoutIDs with the IDs registered, in the order of its range over the
\* set.  A firing that gets no ID changes nothing.
CheckForTimeouts ==
    /\ ~resPanic
    /\ swpc = "idle"
    /\ mgrAlive
    /\ timeouts # {}
    /\ \E ord \in Orders(timeouts) : swIds' = ord
    /\ swpc' = "loop"
    /\ NoReturn
    /\ UNCHANGED <<notResVars, stateVars, senderVars, mapVars, chanVars, netVars, pmVars>>

\* checkForTimeouts, one pass of the loop: the manager answers
\* pullRequestAfterTimeout for the next ID, and a request that was pulled
\* loses its timeout registration and gets its result; the send of the
\* result to the placeholder of nextID never returns
SweepPull ==
    /\ ~resPanic
    /\ swpc = "loop"
    /\ mgrAlive
    /\ LET id   == Head(swIds)
           e    == xchgs[id]
           next == IF Len(swIds) = 1 THEN "idle" ELSE "loop"
       IN  IF ~TimePassed(e, TRUE)
           THEN /\ swpc' = next
                /\ NoReturn
                /\ UNCHANGED <<xchgs, chDelTimeout>>
           ELSE /\ xchgs' = DeleteEntry(xchgs, id)
                /\ chDelTimeout' = Append(chDelTimeout, id)
                /\ IF e.ph
                   THEN swpc' = "blocked" /\ NoReturn
                   ELSE /\ swpc' = next
                        /\ Deliver(e.req, MakeResolveResult(TRUE, "timeout", TimeoutRcode))
    /\ swIds' = Tail(swIds)
    /\ UNCHANGED <<notResVars, stateVars, senderVars, timeouts, chAddRequest, chAddTimeout,
                   netVars, pmVars>>

\* WindowDuration passes: every Timestamp taken so far is older than the window
Tick ==
    /\ ~resPanic
    /\ xchgs' = [i \in IDs |-> IF xchgs[i] = NoEntry THEN NoEntry
                               ELSE [xchgs[i] EXCEPT !.old = TRUE]]
    /\ chAddRequest' = [k \in 1..Len(chAddRequest) |-> [chAddRequest[k] EXCEPT !.old = TRUE]]
    /\ <<xchgs', chAddRequest'>> # <<xchgs, chAddRequest>>
    /\ NoReturn
    /\ UNCHANGED <<notResVars, stateVars, senderVars, timeouts, chAddTimeout,
                   chDelTimeout, netVars, pmVars, sweepVars>>

ResInit ==
    /\ ResStart
    /\ PoolStart
    /\ HdStart
    /\ SdStart
    /\ DcStart
    /\ IdStart
    /\ RotStart
    /\ DupStart
    /\ TimesStart
    /\ BackoffStart
    /\ SqStart
    /\ enPassive = FALSE
    /\ enMaxDNS = MaxDNSQ
    /\ EnumStart
    /\ DomStart
    /\ domSrcs = MaxSrcs
    /\ domHasDns = TRUE
    /\ WcStart
    /\ semSize = MaxSem
    /\ SemStart
    /\ busMax = MaxBusSem
    /\ BusStart
    /\ FilterStart
    /\ filterMaxSize = MaxFilterSize
    /\ DnsStart

\* the resolver while nobody stops it
RunNext ==
    \/ \E c \in ResReqs : Resolve(c)
    \/ \E c \in ResReqs : ResolveAppend(c)
    \/ \E p \in Priorities : SendQueries(p)
    \/ GetID
    \/ WriteMessage
    \/ WriteFailed
    \/ MgrAddTimeout
    \/ MgrDelTimeout
    \/ MgrAddRequest
    \/ \E c \in ResReqs : ReadMessages(c)
    \/ \E c \in ResReqs : ProcessMessage(c)
    \/ \E c \in ResReqs : TcpExchange(c)
    \/ \E c \in ResReqs : TcpFailed(c)
    \/ CheckForTimeouts
    \/ SweepPull
    \/ Tick

ResRunSpec == ResInit /\ [][RunNext]_vars

\* the callers of Resolve and Stop with manageResolverState and the end of
\* manageXchgState
StopNext ==
    \/ \E c \in ResReqs : Resolve(c)
    \/ \E c \in ResReqs : ResolveAppend(c)
    \/ \E k \in StopCalls : Stop(k)
    \/ \E k \in StopCalls : StopSend(k)
    \/ \E k \in StopCalls : StopClose(k)
    \/ ManageResolverState
    \/ MgrDone

ResStopSpec == ResInit /\ [][StopNext]_vars

ResNext ==
    \/ RunNext
    \/ \E k \in StopCalls : Stop(k)
    \/ \E k \in StopCalls : StopSend(k)
    \/ \E k \in StopCalls : StopClose(k)
    \/ ManageResolverState
    \/ MgrDone

ResSpec == ResInit /\ [][ResNext]_vars

\* the resolver when no reply arrives from the name server
QuietNext ==
    \/ \E c \in ResReqs : Resolve(c)
    \/ \E c \in ResReqs : ResolveAppend(c)
    \/ \E k \in StopCalls : Stop(k)
    \/ \E k \in StopCalls : StopSend(k)
    \/ \E k \in StopCalls : StopClose(k)
    \/ ManageResolverState
    \/ MgrDone
    \/ \E p \in Priorities : SendQueries(p)
    \/ GetID
    \/ WriteMessage
    \/ WriteFailed
    \/ MgrAddTimeout
    \/ MgrDelTimeout
    \/ MgrAddRequest
    \/ CheckForTimeouts
    \/ SweepPull
    \/ Tick

\* every goroutine of the resolver that can take a step takes one, and time
\* passes; nothing makes a caller call Resolve or Stop
QuietFairness ==
    /\ WF_vars(\E c \in ResReqs : ResolveAppend(c))
    /\ WF_vars(\E k \in StopCalls : StopSend(k))
    /\ WF_vars(\E k \in StopCalls : StopClose(k))
    /\ WF_vars(ManageResolverState)
    /\ WF_vars(MgrDone)
    /\ WF_vars(\E p \in Priorities : SendQueries(p))
    /\ WF_vars(GetID)
    /\ WF_vars(WriteMessage)
    /\ WF_vars(WriteFailed)
    /\ WF_vars(MgrAddTimeout)
    /\ WF_vars(MgrDelTimeout)
    /\ WF_vars(MgrAddRequest)
    /\ WF_vars(CheckForTimeouts)
    /\ WF_vars(SweepPull)
    /\ WF_vars(Tick)

ResFairSpec == ResInit /\ [][QuietNext]_vars /\ QuietFairness

\* the resolver whose writeMessage registers a request before it writes the
\* query, with the manager of the map, the sweeper and the time, while no
\* reply arrives
QueuedNext ==
    \/ \E c \in ResReqs : QueryMessage(c)
    \/ \E c \in ResReqs : QueueQuery(c)
    \/ \E p \in Priorities : QueueRequestFirst(p)
    \/ WriteQueued
    \/ WriteFailed
    \/ MgrAddTimeout
    \/ MgrDelTimeout
    \/ MgrAddRequest
    \/ CheckForTimeouts
    \/ SweepPull
    \/ Tick

ResQueuedSpec == ResInit /\ [][QueuedNext]_vars

\* request c holds the ID i: its query was written with i and waits for the
\* reply, or its entry is in the map under i; and no result has reached it
Held(c, i) ==
    /\ rpc[c] = "queued"
    /\ \/ wire[c] = "sent" /\ wid[c] = i
       \/ xchgs[i] # NoEntry /\ ~xchgs[i].ph /\ xchgs[i].req = c

\* C5: no two requests that are in flight at the same time hold the same
\* query ID.
C5_UniqueIDs ==
    \A i \in IDs : \A a, b \in ResReqs : a # b => ~(Held(a, i) /\ Held(b, i))

\* C6: every request gets at most one result on its Result channel; a reply,
\* a timeout, a write failure and an outcome of the exchange over TCP exclude
\* each other.
C6_AtMostOneResult == \A c \in ResReqs : nres[c] <= 1

\* C7: every Resolve call that queued its request returns in the end, also
\* when the resolver is stopped meanwhile.
C7_EveryResolveReturns ==
    \A c \in ResReqs : (rpc[c] = "queued") ~> (rpc[c] = "returned")

\* the request on whose behalf this step calls pullRequest for ID i: the
\* request whose write failed, the request that owns the reply, and the
\* request tcpExchange works for; the sweeper acts for the entry it pulls
ActsFor(i) ==
    IF spc = "pull" /\ spc' = "idle" THEN sreq
    ELSE IF \E c \in ResReqs : pmpc[c] = "pull" /\ pmpc'[c] # "pull"
    THEN CHOOSE c \in ResReqs : pmpc[c] = "pull" /\ pmpc'[c] # "pull"
    ELSE IF \E c \in ResReqs : pmpc[c] \in {"tcp_dial", "tcp_io"} /\ pmpc'[c] # pmpc[c]
    THEN pmreq[CHOOSE c \in ResReqs :
                 pmpc[c] \in {"tcp_dial", "tcp_io"} /\ pmpc'[c] # pmpc[c]].req
    ELSE xchgs[i].req

\* C8: the entry of a request is removed from the map only on behalf of
\* that request: by its own reply, its own timeout, or the failure of its
\* own write; tcpExchange never removes the entry of another request.
C8_OnlyOwnerRemoves ==
    [][ \A i \in IDs :
          (xchgs[i] # NoEntry /\ ~xchgs[i].ph /\ xchgs'[i] = NoEntry)
              => xchgs[i].req = ActsFor(i) ]_vars

\* some message about id waits for the manager
MsgPending(id) ==
    \/ \E k \in 1..Len(chAddTimeout) : chAddTimeout[k] = id
    \/ \E k \in 1..Len(chDelTimeout) : chDelTimeout[k] = id
    \/ spc = "pull" /\ sid = id
    \/ \E c \in ResReqs : pmpc[c] \in {"pull", "tcp_dial", "tcp_io"} /\ wid[c] = id

\* the requests in the map whose window has passed and about whose ID no
\* message waits: the manager has handled their timeout registration
Due ==
    { c \in ResReqs :
        \E i \in IDs : /\ xchgs[i] # NoEntry /\ xchgs[i].req = c /\ ~xchgs[i].ph
                       /\ xchgs[i].old /\ ~MsgPending(i) }

\* C9: a sweep fails every request in the map whose window has passed, with
\* the rcode Timeout and again = TRUE, and no other request: whenever the
\* sweeper waits for the ticker, every such request has its ID among the IDs
\* the next sweep visits, and a result of the sweeper is a retryable Timeout.
C9_SweepFailsElapsed ==
    /\ (swpc = "idle" /\ mgrAlive) =>
          \A c \in Due : \E i \in timeouts : xchgs[i].req = c /\ ~xchgs[i].ph
    /\ \A r \in lres : r.err = "timeout" => (r.rcode = TimeoutRcode /\ r.again)

\* the sweeper removes no entry whose window has not passed
C9_OnlyElapsed ==
    [][(swpc = "loop" /\ swIds' = Tail(swIds) /\ xchgs' # xchgs) => xchgs[Head(swIds)].old]_vars

\* C10: a Resolve call on a stopped resolver returns an error with the rcode
\* ResolverErr.
C10_StoppedGivesResolverErr ==
    \A r \in lres : r.err = "stopped" => r.rcode = ResolverErrRcode

\* Stopped is terminal
C10_StoppedIsTerminal == [][stopped => stopped']_vars

-----------------------------------------------------------------------------
(* ResolverPool.Resolve: the loop over the attempts of one call, with      *)
(* ResolverPool.Stop running beside it.  NextResolver reads rp.Resolvers   *)
(* twice without a lock; r.Resolve on the resolver it returned asks        *)
(* Available, queues the query and waits for the result, which is an input *)
(* of the step, or never comes when the resolver is stopped meanwhile.     *)

\* ResolverPool.Resolve: the attempts of each priority
AttemptsCritical == 1000
AttemptsHigh == 100
AttemptsLow == 25

\* dns.RcodeNotImplemented, dns.RcodeRefused
RcodeNotImplemented == 4
RcodeRefused == 5

PoolResolvers == 1..MaxPool

\* the rcodes an error of a resolver can carry
PoolRcodes == {RcodeSuccess, RcodeServerFailure, RcodeNameError, RcodeNotImplemented,
               RcodeRefused, ResolverErrRcode, TimeoutRcode, NotAvailableRcode}

\* what a call of r.Resolve can return: no error, or an error with an rcode,
\* each with the flag again set or not
PoolOutcomes ==
    { [again |-> a, isErr |-> FALSE, rcode |-> RcodeSuccess] : a \in BOOLEAN }
        \cup { [again |-> a, isErr |-> TRUE, rcode |-> rc] : a \in BOOLEAN, rc \in PoolRcodes }

\* ResolverPool.Resolve, the switch on the priority
AttemptsFor(priority) ==
    IF priority = PriorityCritical THEN AttemptsCritical
    ELSE IF priority = PriorityHigh THEN AttemptsHigh
    ELSE IF priority = PriorityLow THEN AttemptsLow
    ELSE 0

MoreAttempts_Inclusive(count, attempts) == count <= attempts

\* ResolverPool.Resolve, the condition of the loop
MoreAttempts(count, attempts) == count < attempts

Success_IgnoresAgain(o) ==
    ~(o.isErr /\ o.rcode \in {NotAvailableRcode, RcodeServerFailure, RcodeRefused,
                               RcodeNotImplemented})

\* ResolverPool.Resolve, the flag success after a call of r.Resolve
Success(o) ==
    IF o.again THEN FALSE
    ELSE IF o.isErr
    THEN o.rcode \notin {NotAvailableRcode, RcodeServerFailure, RcodeRefused,
                         RcodeNotImplemented}
    ELSE TRUE

\* ResolverPool.Stop, one pass of its range over rp.Resolvers: r.Stop(), up
\* to the moment at which IsStopped of that resolver answers true
PoolStop ==
    /\ rpResolvers # {}
    /\ poolStopped # PoolResolvers
    /\ poolStopped' = poolStopped \cup {Cardinality(poolStopped) + 1}
    /\ UNCHANGED <<notPoolVars, rpResolvers, poolCur, poolPc, poolPriority, poolAttempts,
                   poolCount, poolLast, poolRes, ctxCancelled, poolLate>>

\* ResolverPool.Stop after the range: rp.Resolvers = []Resolver{}
PoolStopEmpty ==
    /\ rpResolvers # {}
    /\ poolStopped = PoolResolvers
    /\ rpResolvers' = {}
    /\ UNCHANGED <<notPoolVars, poolStopped, poolCur, poolPc, poolPriority, poolAttempts,
                   poolCount, poolLast, poolRes, ctxCancelled, poolLate>>

\* ResolverPool.Resolve up to the loop
PoolResolve ==
    /\ poolPc = "idle"
    /\ \E priority \in Priorities \cup {3} :
         /\ poolPriority' = priority
         /\ poolAttempts' = AttemptsFor(priority)
    /\ poolCount' = 0
    /\ poolPc' = "loop"
    /\ UNCHANGED <<notPoolVars, poolStopped, rpResolvers, poolCur, poolLast, poolRes,
                   ctxCancelled, poolLate>>

\* ResolverPool.Resolve with r == nil: the sleep, and the next pass
PoolSleep ==
    /\ poolCount' = poolCount + 1
    /\ poolPc' = "loop"
    /\ poolCur' = 0

\* ResolverPool.Resolve, a pass of the loop up to the random choice of
\* NextResolver: max is the length of rp.Resolvers, and with no resolver or
\* no usable one NextResolver returns nil
NextResolver ==
    /\ poolPc = "loop"
    /\ MoreAttempts(poolCount, poolAttempts)
    /\ IF rpResolvers = {} \/ rpResolvers \ poolStopped = {}
       THEN PoolSleep
       ELSE poolPc' = "pick" /\ UNCHANGED <<poolCount, poolCur>>
    /\ UNCHANGED <<notPoolVars, poolStopped, rpResolvers, poolPriority, poolAttempts,
                   poolLast, poolRes, ctxCancelled, poolLate>>

\* NextResolver, rp.Resolvers[rand.Int()%max] and the loops that follow: the
\* index is out of range when ResolverPool.Stop has emptied rp.Resolvers
\* since max was read, and the call panics; else a resolver that is not
\* stopped is returned, or nil when every resolver has been stopped meanwhile
NextResolverPick ==
    /\ poolPc = "pick"
    /\ IF rpResolvers = {}
       THEN poolPc' = "panic" /\ UNCHANGED <<poolCount, poolCur>>
       ELSE IF rpResolvers \ poolStopped = {}
       THEN PoolSleep
       ELSE /\ \E r \in rpResolvers \ poolStopped : poolCur' = r
            /\ poolPc' = "call"
            /\ UNCHANGED poolCount
    /\ UNCHANGED <<notPoolVars, poolStopped, rpResolvers, poolPriority, poolAttempts,
                   poolLast, poolRes, ctxCancelled, poolLate>>

\* what r.Resolve returns on a stopped resolver: the error of Available,
\* with again set
StoppedOutcome == [again |-> TRUE, isErr |-> TRUE, rcode |-> RcodeSuccess]

\* ResolverPool.Resolve after r.Resolve has returned o: the return on
\* success, or the next pass
PoolAfter(o) ==
    /\ poolLast' = o
    /\ poolCur' = 0
    /\ IF Success(o)
       THEN /\ poolPc' = "returned"
            /\ poolRes' = o
            /\ UNCHANGED poolCount
       ELSE /\ poolCount' = poolCount + 1
            /\ poolPc' = "loop"
            /\ UNCHANGED poolRes

\* ResolverPool.Resolve, r.Resolve up to the append of the query: a resolver
\* that has been stopped since NextResolver returned it answers with the
\* error of Available; else the query is queued, and the call waits
PoolAttempt ==
    /\ poolPc = "call"
    /\ IF poolCur \in poolStopped
       THEN PoolAfter(StoppedOutcome) /\ UNCHANGED poolLate
       ELSE /\ poolPc' = "wait"
            /\ poolLate' = (poolLate \/ ctxCancelled)
            /\ UNCHANGED <<poolCur, poolCount, poolLast, poolRes>>
    /\ UNCHANGED <<notPoolVars, poolStopped, rpResolvers, poolPriority, poolAttempts,
                   ctxCancelled>>

\* r.Resolve returns what the resolver made of the query
PoolAttemptReturns ==
    /\ poolPc = "wait"
    /\ \E o \in PoolOutcomes : PoolAfter(o)
    /\ UNCHANGED <<notPoolVars, poolStopped, rpResolvers, poolPriority, poolAttempts,
                   ctxCancelled, poolLate>>

\* r.Resolve waits on its result channel for ever: the resolver was stopped
\* with the query queued or in flight, and nothing answers the request
PoolAttemptBlocks ==
    /\ poolPc = "wait"
    /\ poolCur \in poolStopped
    /\ poolPc' = "stuck"
    /\ UNCHANGED <<notPoolVars, poolStopped, rpResolvers, poolCur, poolPriority,
                   poolAttempts, poolCount, poolLast, poolRes, ctxCancelled, poolLate>>

\* the context of the call is cancelled while the call is running, or before
\* it is made; ResolverPool.Resolve and the r.Resolve it calls hand the
\* context on and never read its Done channel
PoolCancel ==
    /\ poolPc \in {"idle", "loop"}
    /\ ~ctxCancelled
    /\ ctxCancelled' = TRUE
    /\ UNCHANGED <<notPoolVars, poolStopped, rpResolvers, poolCur, poolPc, poolPriority,
                   poolAttempts, poolCount, poolLast, poolRes, poolLate>>

\* the error ResolverPool.Resolve returns after the loop: a ResolveError
\* with a message only
ExhaustedErr == [again |-> FALSE, isErr |-> TRUE, rcode |-> 0]

\* ResolverPool.Resolve after the loop
PoolExhausted ==
    /\ poolPc = "loop"
    /\ ~MoreAttempts(poolCount, poolAttempts)
    /\ poolPc' = "exhausted"
    /\ poolRes' = ExhaustedErr
    /\ UNCHANGED <<notPoolVars, poolStopped, rpResolvers, poolCur, poolPriority,
                   poolAttempts, poolCount, poolLast, ctxCancelled, poolLate>>

PoolInit ==
    /\ PoolStart
    /\ HdStart
    /\ SdStart
    /\ DcStart
    /\ IdStart
    /\ RotStart
    /\ DupStart
    /\ TimesStart
    /\ BackoffStart
    /\ SqStart
    /\ enPassive = FALSE
    /\ enMaxDNS = MaxDNSQ
    /\ EnumStart
    /\ DomStart
    /\ domSrcs = MaxSrcs
    /\ domHasDns = TRUE
    /\ WcStart
    /\ semSize = MaxSem
    /\ SemStart
    /\ busMax = MaxBusSem
    /\ BusStart
    /\ FilterStart
    /\ filterMaxSize = MaxFilterSize
    /\ DnsStart
    /\ ResStart

PoolNext ==
    \/ PoolStop
    \/ PoolStopEmpty
    \/ PoolResolve
    \/ NextResolver
    \/ NextResolverPick
    \/ PoolAttempt
    \/ PoolAttemptReturns
    \/ PoolAttemptBlocks
    \/ PoolExhausted
    \/ PoolCancel

PoolSpec == PoolInit /\ [][PoolNext]_vars

\* the attempts the priority of the call allows
Budget ==
    IF poolPriority = PriorityCritical THEN 1000
    ELSE IF poolPriority = PriorityHigh THEN 100
    ELSE IF poolPriority = PriorityLow THEN 25
    ELSE 0

\* the attempts of the call so far: the passes of the loop that are over,
\* and the pass whose r.Resolve has queued its query or has returned for
\* good; each pass calls r.Resolve at most once
AttemptsMade == poolCount + (IF poolPc \in {"wait", "stuck", "returned"} THEN 1 ELSE 0)

\* the call is within its attempts, and with the attempts used up it starts
\* no further pass and returns
WithinBudget ==
    /\ AttemptsMade <= Budget
    /\ (poolPc = "loop" /\ poolCount = Budget)
           => (~ENABLED NextResolver /\ ENABLED PoolExhausted)

C11_Blocked ==
    /\ poolPc = "stuck"
    /\ poolPriority = PriorityLow
    /\ poolCount = 24

C12_ExhaustedGivesResolverErr ==
    poolPc = "exhausted" => (poolRes.isErr /\ poolRes.rcode = ResolverErrRcode)

\* an outcome that asks for another attempt: again is set, or the rcode is
\* REFUSED, SERVFAIL, NOTIMPL or NotAvailable
Retryable(o) ==
    \/ o.again
    \/ o.isErr /\ o.rcode \in {5, 2, 4, 256}

\* C13: the call returns the first outcome that is not retryable, in the
\* step that received it, and it returns no retryable outcome: the loop goes
\* on only after retryable outcomes, and a call that returned before its
\* attempts were used up returned the outcome of its last attempt, which is
\* not retryable.
C13_FirstFinalOutcome ==
    /\ (poolPc = "loop" /\ poolLast # NoOutcome) => Retryable(poolLast)
    /\ poolPc = "returned" => (poolRes = poolLast /\ ~Retryable(poolRes)
                               /\ poolCount < Budget)
    /\ poolPc = "exhausted" => poolCount = Budget

\* the call returns an error that is not retryable after retryable outcomes
C13_Witness ==
    /\ poolPc = "returned"
    /\ poolCount > 0
    /\ poolRes.isErr
    /\ poolRes.rcode = RcodeNameError

\* C28: once the context of the call is cancelled, the call queues no further
\* query, and it returns an error with the rcode ResolverErr.
C28_CancelStopsTheCall ==
    /\ ~poolLate
    /\ (ctxCancelled /\ poolPc \in {"returned", "exhausted"})
           => (poolRes.isErr /\ poolRes.rcode = ResolverErrRcode)

-----------------------------------------------------------------------------
(* The global DNS-query semaphore: DNSService.OnDNSRequest and             *)
(* processDNSRequest, AddressManager.reverseDNSSweep and                   *)
(* Enumeration.reverseDNSQuery.  A goroutine is started with the permit    *)
(* its starter acquired and releases it by a deferred Release.             *)

\* what a request handed to OnDNSRequest can be: nil or without names,
\* a context without configuration or bus, a blacklisted name, a name the
\* wildcard test calls dynamic, a root domain name, any other name
SemRequestKinds == {"nil", "nocontext", "blacklisted", "dynamic", "root", "name"}

\* the address lists CIDRSubset gives the sweep
SweepLists == {<<>>} \cup { <<a>> : a \in 1..MaxSweep }
                     \cup { <<a, b>> : a \in 1..MaxSweep, b \in (1..MaxSweep) }

\* the next goroutine to start
FreeTasks == { t \in SemTasks : semPc[t] = "none" }
NextTask == CHOOSE t \in FreeTasks : \A u \in FreeTasks : t <= u

\* the deferred Release(1) of a goroutine that returns
ReleaseOnReturn(t) ==
    /\ semPc' = [semPc EXCEPT ![t] = "done"]
    /\ semKind' = [semKind EXCEPT ![t] = "none"]
    /\ semPermits' = semPermits + 1
    /\ semReleased' = [semReleased EXCEPT ![t] = @ + 1]

\* DNSService.OnDNSRequest: Acquire, then the goroutine
SemOnDNSRequest ==
    /\ FreeTasks # {}
    /\ CanAcquire(semPermits)
    /\ \E kind \in SemRequestKinds :
         /\ semPermits' = semPermits - 1
         /\ semPc' = [semPc EXCEPT ![NextTask] = "process"]
         /\ semKind' = [semKind EXCEPT ![NextTask] = kind]
    /\ UNCHANGED <<notSemVars, semSize, semReleased, rdPc, rdIps, rdIdx, sweepFilter, addrMgrVars>>

\* processDNSRequest up to the publication of SetActive: the returns for a
\* nil request and for a context without configuration or bus
SemProcessDNSRequest(t) ==
    /\ semPc[t] = "process"
    /\ IF semKind[t] \in {"nil", "nocontext"}
       THEN ReleaseOnReturn(t)
       ELSE /\ semPc' = [semPc EXCEPT ![t] = "filter"]
            /\ UNCHANGED <<semPermits, semReleased, semKind>>
    /\ UNCHANGED <<notSemVars, semSize, rdPc, rdIps, rdIdx, sweepFilter, addrMgrVars>>

\* processDNSRequest: the return for a blacklisted name and for a dynamic
\* wildcard
SemProcessFilter(t) ==
    /\ semPc[t] = "filter"
    /\ IF semKind[t] \in {"blacklisted", "dynamic"}
       THEN ReleaseOnReturn(t)
       ELSE /\ semPc' = [semPc EXCEPT ![t] = "query"]
            /\ UNCHANGED <<semPermits, semReleased, semKind>>
    /\ UNCHANGED <<notSemVars, semSize, rdPc, rdIps, rdIdx, sweepFilter, addrMgrVars>>

\* processDNSRequest: the queries and the return at the end
SemProcessQueries(t) ==
    /\ semPc[t] = "query"
    /\ ReleaseOnReturn(t)
    /\ UNCHANGED <<notSemVars, semSize, rdPc, rdIps, rdIdx, sweepFilter, addrMgrVars>>

\* reverseDNSSweep up to the loop: the return for a reserved address
ReverseDNSSweep ==
    /\ rdPc = "idle"
    /\ \E reserved \in BOOLEAN, ips \in SweepLists :
         IF reserved
         THEN UNCHANGED <<rdPc, rdIps, rdIdx>>
         ELSE /\ rdPc' = "loop"
              /\ rdIps' = ips
              /\ rdIdx' = 1
    /\ UNCHANGED <<notSemVars, semSize, semPermits, semPc, semKind, semReleased,
                   sweepFilter, addrMgrVars>>

\* reverseDNSSweep, one pass of the loop up to Acquire: sweepFilter.Duplicate
\* records the address, and an address it reports as seen is skipped
SweepNext ==
    /\ rdPc = "loop"
    /\ rdIdx <= Len(rdIps)
    /\ \E d \in BloomDuplicate(sweepFilter, rdIps[rdIdx]) :
         /\ sweepFilter' = d.filter
         /\ IF d.dup
            THEN rdIdx' = rdIdx + 1 /\ UNCHANGED rdPc
            ELSE rdPc' = "acquire" /\ UNCHANGED rdIdx
    /\ UNCHANGED <<notSemVars, semSize, semPermits, semPc, semKind, semReleased, rdIps,
                   addrMgrVars>>

\* reverseDNSSweep: SemMaxDNSQueries.Acquire(1) and go reverseDNSQuery(a)
SweepAcquire ==
    /\ rdPc = "acquire"
    /\ FreeTasks # {}
    /\ CanAcquire(semPermits)
    /\ semPermits' = semPermits - 1
    /\ semPc' = [semPc EXCEPT ![NextTask] = "reverse"]
    /\ semKind' = [semKind EXCEPT ![NextTask] = "ptr"]
    /\ rdIdx' = rdIdx + 1
    /\ rdPc' = "loop"
    /\ UNCHANGED <<notSemVars, semSize, semReleased, rdIps, sweepFilter, addrMgrVars>>

\* what the steps of the AddressManager on its queues leave alone
addrFrame == <<filterVars, dnsVars, resVars, poolVars, busVars, wcVars, domVars, enumButAddrQ,
               sqVars, backoffVars, tmVars, dupVars, rotVars, idVars, dcVars, sdVars, hdVars,
               semSize, semPermits, semPc, semKind, semReleased, rdPc, rdIps, rdIdx>>

\* the addresses handed to the AddressManager; NoAddr is a nil request or
\* one without an address
Addresses == 1..MaxSweep
NoAddr == 0

\* asnChanMsg
AsnChanMsg(addr, resolved) == [Req |-> addr, Resolved |-> resolved]

\* the sequence q without its element i
RemoveAt(q, i) == SubSeq(q, 1, i - 1) \o SubSeq(q, i + 1, Len(q))

\* lookupASNInfo holds no message
NoMsg == AsnChanMsg(NoAddr, FALSE)

\* the addresses on their way to the queues, and in them, are at most
\* MaxAddrQ
AddrRoom == Len(asnLookup) + (IF asnCur = NoMsg THEN 0 ELSE 1) + enAddrQ < MaxAddrQ

\* InputAddress: a request that is nil or has no address is dropped, and so
\* is an address revFilter has seen; for a new address a goroutine sends
\* the request on asnLookup for the reverse queue
InputAddress ==
    /\ AddrRoom
    /\ \E addr \in {NoAddr} \cup Addresses :
         IF addr = NoAddr
         THEN UNCHANGED <<addrRevFilter, asnLookup>>
         ELSE LET d == FilterDuplicate(addrRevFilter, addr)
              IN  /\ addrRevFilter' = d.filter
                  /\ asnLookup' = IF d.dup THEN asnLookup
                                  ELSE Append(asnLookup, AsnChanMsg(addr, FALSE))
    /\ UNCHANGED <<addrFrame, enAddrQ, sweepFilter, addrResFilter, asnCur>>

\* addResolvedAddr, started by InputName for an A or AAAA record: an address
\* resFilter has seen is dropped; for a new one a goroutine sends the
\* request on asnLookup for the queue of the resolved addresses
AddResolvedAddr ==
    /\ AddrRoom
    /\ \E addr \in Addresses :
         LET d == FilterDuplicate(addrResFilter, addr)
         IN  /\ addrResFilter' = d.filter
             /\ asnLookup' = IF d.dup THEN asnLookup
                             ELSE Append(asnLookup, AsnChanMsg(addr, TRUE))
    /\ UNCHANGED <<addrFrame, enAddrQ, sweepFilter, addrRevFilter, asnCur>>

\* lookupASNInfo, case msg := <-r.asnLookup: a message is received, that of
\* any of the sending goroutines, and addToCachePlusDatabase starts, which
\* sleeps for 3 to 13 s when the cache has no ASN for the address
LookupASNInfo ==
    /\ asnCur = NoMsg
    /\ \E i \in 1..Len(asnLookup) :
         /\ asnCur' = asnLookup[i]
         /\ asnLookup' = RemoveAt(asnLookup, i)
    /\ UNCHANGED <<addrFrame, enAddrQ, sweepFilter, addrRevFilter, addrResFilter>>

\* lookupASNInfo after addToCachePlusDatabase: the request is appended to
\* resQueue when it is resolved and to revQueue otherwise, the queues being
\* those of this moment; enAddrQ is the length of both
LookupASNAppend ==
    /\ asnCur # NoMsg
    /\ enAddrQ' = enAddrQ + 1
    /\ asnCur' = NoMsg
    /\ UNCHANGED <<addrFrame, sweepFilter, addrRevFilter, addrResFilter, asnLookup>>

\* AddressManager.OutputRequests(num): the length of its queues after the
\* call, which returns 0
AddrOutput(len, num) == IF num <= 0 THEN len ELSE len - Min(num, len)

\* OutputRequests(num), as useManagers calls it: up to num requests leave
\* the queues, each for a goroutine of processAddress
AddrOutputRequests ==
    /\ \E num \in 0..MaxAddrQ : enAddrQ' = AddrOutput(enAddrQ, num)
    /\ UNCHANGED <<addrFrame, sweepFilter, addrMgrVars>>

\* AddressManager.Stop: revQueue and resQueue are replaced by empty queues,
\* revFilter, resFilter and sweepFilter by empty filters
AddrStop ==
    /\ enAddrQ' = 0
    /\ addrRevFilter' = {}
    /\ addrResFilter' = {}
    /\ sweepFilter' = {}
    /\ UNCHANGED <<addrFrame, asnLookup, asnCur>>

\* reverseDNSSweep after the loop
SweepReturn ==
    /\ rdPc = "loop"
    /\ rdIdx > Len(rdIps)
    /\ rdPc' = "idle"
    /\ rdIps' = <<>>
    /\ rdIdx' = 1
    /\ UNCHANGED <<notSemVars, semSize, semPermits, semPc, semKind, semReleased,
                   sweepFilter, addrMgrVars>>

\* reverseDNSQuery: every return, with or without a name found
ReverseDNSQuery(t) ==
    /\ semPc[t] = "reverse"
    /\ ReleaseOnReturn(t)
    /\ UNCHANGED <<notSemVars, semSize, rdPc, rdIps, rdIdx, sweepFilter, addrMgrVars>>

SemInit ==
    /\ semSize \in 1..MaxSem
    /\ SemStart
    /\ PoolStart
    /\ HdStart
    /\ SdStart
    /\ DcStart
    /\ IdStart
    /\ RotStart
    /\ DupStart
    /\ TimesStart
    /\ BackoffStart
    /\ SqStart
    /\ enPassive = FALSE
    /\ enMaxDNS = MaxDNSQ
    /\ EnumStart
    /\ DomStart
    /\ domSrcs = MaxSrcs
    /\ domHasDns = TRUE
    /\ WcStart
    /\ busMax = MaxBusSem
    /\ BusStart
    /\ FilterStart
    /\ filterMaxSize = MaxFilterSize
    /\ DnsStart
    /\ ResStart

SemNext ==
    \/ SemOnDNSRequest
    \/ \E t \in SemTasks : SemProcessDNSRequest(t)
    \/ \E t \in SemTasks : SemProcessFilter(t)
    \/ \E t \in SemTasks : SemProcessQueries(t)
    \/ ReverseDNSSweep
    \/ SweepNext
    \/ SweepAcquire
    \/ SweepReturn
    \/ AddrStop
    \/ \E t \in SemTasks : ReverseDNSQuery(t)

SemSpec == SemInit /\ [][SemNext]_vars

\* the AddressManager from NewAddressManager to Stop, with its reverse DNS
\* sweep
AddrNext ==
    \/ InputAddress
    \/ AddResolvedAddr
    \/ LookupASNInfo
    \/ LookupASNAppend
    \/ AddrOutputRequests
    \/ AddrStop
    \/ ReverseDNSSweep
    \/ SweepNext
    \/ SweepAcquire
    \/ SweepReturn
    \/ \E t \in SemTasks : ReverseDNSQuery(t)

AddrSpec == SemInit /\ [][AddrNext]_vars

\* the goroutines that hold a permit
InFlight == { t \in SemTasks : semPc[t] \in {"process", "filter", "query", "reverse"} }

\* C14: the DNS requests and reverse DNS queries in flight never exceed the
\* size of the semaphore, and every permit acquired is released exactly
\* once: not before its goroutine returns, once when it has returned, on
\* every path.
C14_PermitsBoundInFlight ==
    /\ Cardinality(InFlight) <= semSize
    /\ semPermits + Cardinality(InFlight) = semSize
    /\ \A t \in SemTasks :
         /\ t \in InFlight => semReleased[t] = 0
         /\ semPc[t] = "done" => semReleased[t] = 1
         /\ semPc[t] = "none" => semReleased[t] = 0

\* the semaphore is full with a reverse query and a request that is about
\* to be rejected for its wildcard, after another goroutine has returned
C14_Witness ==
    /\ semPermits = 0
    /\ semSize = MaxSem
    /\ \E t \in InFlight : semKind[t] = "ptr"
    /\ \E t \in InFlight : semKind[t] = "dynamic" /\ semPc[t] = "filter"
    /\ \E t \in SemTasks : semPc[t] = "done" /\ semReleased[t] = 1

-----------------------------------------------------------------------------
(* The event bus: Stop, Subscribe, Unsubscribe, Publish, the dispatcher    *)
(* processRequests and execute.  A step of the dispatcher is one select,   *)
(* one call of Queue.Next, or the start of one callback.                   *)


\* the delays of the dispatcher, in ms
delays == <<10, 25, 50, 75, 100, 150, 250>>
maxIdx == 6

\* Queue.Append and Queue.Next: first in, first out
QueueAppend(q, e) == Append(q, e)
QueueEmpty(q) == q = <<>>

\* EventBus.Stop: closes done, once
BusStop ==
    /\ ~busDone
    /\ busDone' = TRUE
    /\ UNCHANGED <<notBusVars, busMax, busPermits, chSubscribe, chUnsubscribe, busQueues,
                   busTopics, bpc, bp, bcur, bcbs, curIdx, busExec, busPubs, busSubs,
                   busUnsubs>>

\* EventBus.Subscribe: sends the request on the channel
BusSubscribe ==
    /\ busSubs < MaxSubCalls
    /\ Len(chSubscribe) < 10
    /\ \E topic \in {"a", ""}, fn \in BusCallbacks :
         chSubscribe' = Append(chSubscribe, [Topic |-> topic, Fn |-> fn])
    /\ busSubs' = busSubs + 1
    /\ UNCHANGED <<notBusVars, busMax, busPermits, busDone, chUnsubscribe, busQueues,
                   busTopics, bpc, bp, bcur, bcbs, curIdx, busExec, busPubs, busUnsubs>>

\* EventBus.Unsubscribe: sends the request on the channel
BusUnsubscribe ==
    /\ busUnsubs < MaxUnsubCalls
    /\ Len(chUnsubscribe) < 10
    /\ \E fn \in BusCallbacks :
         chUnsubscribe' = Append(chUnsubscribe, [Topic |-> "a", Fn |-> fn])
    /\ busUnsubs' = busUnsubs + 1
    /\ UNCHANGED <<notBusVars, busMax, busPermits, busDone, chSubscribe, busQueues,
                   busTopics, bpc, bp, bcur, bcbs, curIdx, busExec, busPubs, busSubs>>

\* EventBus.Publish: with a topic and a priority of the three, appends the
\* publication to the queue of its priority.  late records that the call
\* was made after Stop had returned.
Publish ==
    /\ busPubs < MaxPubs
    /\ busPubs' = busPubs + 1
    /\ \E topic \in BusTopicNames \cup {""}, priority \in Priorities \cup {3} :
         IF topic # "" /\ priority >= PriorityLow /\ priority <= PriorityCritical
         THEN busQueues' = [busQueues EXCEPT ![priority] =
                  QueueAppend(@, [topic |-> topic, late |-> busDone])]
         ELSE UNCHANGED busQueues
    /\ UNCHANGED <<notBusVars, busMax, busPermits, busDone, chSubscribe, chUnsubscribe,
                   busTopics, bpc, bp, bcur, bcbs, curIdx, busExec, busSubs, busUnsubs>>

\* the callbacks of a topic in the dispatcher's map
CallbacksOf(topic) == IF topic \in DOMAIN busTopics THEN busTopics[topic] ELSE <<>>

\* the map with the callbacks of a topic replaced
WithCallbacks(topic, cbs) ==
    [t \in (DOMAIN busTopics) \cup {topic} |-> IF t = topic THEN cbs ELSE busTopics[t]]

\* the callbacks of a list other than fn, in order
RECURSIVE Without(_, _)
Without(cbs, fn) ==
    IF cbs = <<>> THEN <<>>
    ELSE IF Head(cbs) = fn THEN Without(Tail(cbs), fn)
    ELSE <<Head(cbs)>> \o Without(Tail(cbs), fn)

\* processRequests, select: done is closed
SelectDone ==
    /\ bpc = "select"
    /\ busDone
    /\ bpc' = "exited"
    /\ UNCHANGED <<notBusVars, busMax, busPermits, busDone, chSubscribe, chUnsubscribe,
                   busQueues, busTopics, bp, bcur, bcbs, curIdx, busExec, busPubs, busSubs,
                   busUnsubs>>

\* processRequests, select: a request to subscribe
SelectSubscribe ==
    /\ bpc = "select"
    /\ chSubscribe # <<>>
    /\ LET sub == Head(chSubscribe) IN
         IF sub.Topic # ""
         THEN busTopics' = WithCallbacks(sub.Topic, Append(CallbacksOf(sub.Topic), sub.Fn))
         ELSE UNCHANGED busTopics
    /\ chSubscribe' = Tail(chSubscribe)
    /\ UNCHANGED <<notBusVars, busMax, busPermits, busDone, chUnsubscribe, busQueues, bpc,
                   bp, bcur, bcbs, curIdx, busExec, busPubs, busSubs, busUnsubs>>

\* processRequests, select: a request to unsubscribe
SelectUnsubscribe ==
    /\ bpc = "select"
    /\ chUnsubscribe # <<>>
    /\ LET unsub == Head(chUnsubscribe) IN
         IF unsub.Topic # ""
         THEN busTopics' = WithCallbacks(unsub.Topic,
                                         Without(CallbacksOf(unsub.Topic), unsub.Fn))
         ELSE UNCHANGED busTopics
    /\ chUnsubscribe' = Tail(chUnsubscribe)
    /\ UNCHANGED <<notBusVars, busMax, busPermits, busDone, chSubscribe, busQueues, bpc,
                   bp, bcur, bcbs, curIdx, busExec, busPubs, busSubs, busUnsubs>>

\* processRequests, select: no case is ready, the default case starts the
\* scan of the queues at the critical one
SelectDefault ==
    /\ bpc = "select"
    /\ ~busDone
    /\ chSubscribe = <<>>
    /\ chUnsubscribe = <<>>
    /\ bpc' = "scan"
    /\ bp' = PriorityCritical
    /\ UNCHANGED <<notBusVars, busMax, busPermits, busDone, chSubscribe, chUnsubscribe,
                   busQueues, busTopics, bcur, bcbs, curIdx, busExec, busPubs, busSubs,
                   busUnsubs>>

\* the next delay index after a scan that found nothing
NextDelay(idx) == IF idx < maxIdx THEN idx + 1 ELSE idx

\* what the scan of the dispatcher leaves alone outside the bus
notScanVars == <<filterVars, dnsVars, resVars, poolVars, semVars, wcVars, domVars, enumVars,
                 sqVars, tmVars, dupVars, rotVars, idVars, dcVars, sdVars, hdVars>>

\* processRequests, default case: one call of Next on the queue of band bp.
\* An element ends the scan: curIdx is reset and the callbacks of its topic
\* are looked up.  Without an element the scan goes to the next band, and
\* after the last band curIdx is advanced and the dispatcher sleeps for
\* delays[curIdx], then selects again.
ScanQueue ==
    /\ bpc = "scan"
    /\ IF ~QueueEmpty(busQueues[bp])
       THEN LET p == Head(busQueues[bp]) IN
              /\ busQueues' = [busQueues EXCEPT ![bp] = Tail(@)]
              /\ curIdx' = 0
              /\ busSlept' = 0
              /\ busRun' = 0
              /\ IF p.topic \in DOMAIN busTopics /\ busTopics[p.topic] # <<>>
                 THEN /\ bpc' = "dispatch"
                      /\ bcur' = p
                      /\ bcbs' = busTopics[p.topic]
                 ELSE /\ bpc' = "select"
                      /\ UNCHANGED <<bcur, bcbs>>
              /\ UNCHANGED bp
       ELSE /\ IF bp > PriorityLow
               THEN /\ bp' = bp - 1
                    /\ UNCHANGED <<bpc, curIdx, busSlept, busRun>>
               ELSE /\ curIdx' = NextDelay(curIdx)
                    /\ busSlept' = delays[NextDelay(curIdx) + 1]
                    /\ busRun' = IF busRun < Len(delays) THEN busRun + 1 ELSE busRun
                    /\ bpc' = "select"
                    /\ UNCHANGED bp
            /\ UNCHANGED <<busQueues, bcur, bcbs>>
    /\ UNCHANGED <<notScanVars, busMax, busPermits, busDone, chSubscribe, chUnsubscribe,
                   busTopics, busExec, busPubs, busSubs, busUnsubs>>

\* processRequests, the loop over the callbacks: Acquire(1), then the
\* goroutine execute; after the last callback the dispatcher selects again
DispatchCallback ==
    /\ bpc = "dispatch"
    /\ CanAcquire(busPermits)
    /\ busPermits' = busPermits - 1
    /\ busExec' = [busExec EXCEPT ![<<Head(bcbs), bcur.late>>] = @ + 1]
    /\ bcbs' = Tail(bcbs)
    /\ IF Tail(bcbs) = <<>>
       THEN bpc' = "select" /\ bcur' = NoPub
       ELSE UNCHANGED <<bpc, bcur>>
    /\ UNCHANGED <<notBusVars, busMax, busDone, chSubscribe, chUnsubscribe, busQueues,
                   busTopics, bp, curIdx, busPubs, busSubs, busUnsubs>>

\* execute: the callback returns and the deferred Release(1) runs
Execute_ReleasesFirst(e) ==
    /\ busExec[e] > 0
    /\ busExec' = busExec
    /\ busPermits' = busPermits + 1
    /\ UNCHANGED <<notBusVars, busMax, busDone, chSubscribe, chUnsubscribe, busQueues,
                   busTopics, bpc, bp, bcur, bcbs, curIdx, busPubs, busSubs, busUnsubs>>

Execute(e) ==
    /\ busExec[e] > 0
    /\ busExec' = [busExec EXCEPT ![e] = @ - 1]
    /\ busPermits' = busPermits + 1
    /\ UNCHANGED <<notBusVars, busMax, busDone, chSubscribe, chUnsubscribe, busQueues,
                   busTopics, bpc, bp, bcur, bcbs, curIdx, busPubs, busSubs, busUnsubs>>

BusInit ==
    /\ busMax \in 1..MaxBusSem
    /\ BusStart
    /\ semSize = MaxSem
    /\ SemStart
    /\ PoolStart
    /\ HdStart
    /\ SdStart
    /\ DcStart
    /\ IdStart
    /\ RotStart
    /\ DupStart
    /\ TimesStart
    /\ BackoffStart
    /\ SqStart
    /\ enPassive = FALSE
    /\ enMaxDNS = MaxDNSQ
    /\ EnumStart
    /\ DomStart
    /\ domSrcs = MaxSrcs
    /\ domHasDns = TRUE
    /\ WcStart
    /\ FilterStart
    /\ filterMaxSize = MaxFilterSize
    /\ DnsStart
    /\ ResStart

BusNext ==
    \/ BusStop
    \/ BusSubscribe
    \/ BusUnsubscribe
    \/ Publish
    \/ SelectDone
    \/ SelectSubscribe
    \/ SelectUnsubscribe
    \/ SelectDefault
    \/ ScanQueue
    \/ DispatchCallback
    \/ \E e \in DOMAIN busExec : Execute(e)

BusSpec == BusInit /\ [][BusNext]_vars

\* the number of callbacks that are executing
RECURSIVE SumOver(_, _)
SumOver(f, S) ==
    IF S = {} THEN 0
    ELSE LET x == CHOOSE y \in S : TRUE IN f[x] + SumOver(f, S \ {x})

Executing == SumOver(busExec, DOMAIN busExec)

\* C15: never more callbacks are executing than the size given to
\* NewEventBus; a callback holds the permit acquired before its start until
\* it returns, and gives it back once: the free permits and the callbacks
\* executing always add up to the size.
C15_CallbacksWithinPermits ==
    /\ Executing <= busMax
    /\ busPermits + Executing = busMax
    /\ busPermits >= 0

\* every permit is taken by a callback while the dispatcher waits to start
\* the next one
C15_Witness ==
    /\ busMax = MaxBusSem
    /\ Executing = busMax
    /\ bpc = "dispatch"
    /\ bcbs # <<>>

\* C16: a step that takes a publication from the queue of a band finds the
\* queues of all higher bands empty.
C16_DequeuesHighestBand ==
    [][\A p \in Priorities :
          Len(busQueues'[p]) < Len(busQueues[p])
              => \A q \in Priorities : q > p => busQueues[q] = <<>>]_vars

\* C17: no callback executes for a publication whose Publish call was made
\* after Stop had returned.
C17_LatePublishIgnored ==
    \A fn \in BusCallbacks : busExec[<<fn, TRUE>>] = 0

-----------------------------------------------------------------------------
(* The wildcard manager: fetchWildcardType, manageWildcards,               *)
(* resendWildcardReq and wildcardTest.  A wildcard test shares nothing     *)
(* with the manager until it sends its result, so its loop over the probes *)
(* is one step.  rp.Done is never closed by ResolverPool.Stop, so the      *)
(* manager never takes that case of its select.                            *)

\* strings.Trim(data, "."): the record data without the dots around it
TrimDots(data) == IF data = "ip1." THEN "ip1" ELSE data

\* the answers the queries of one probe can return for the three query types
ProbeAnswers == { <<>>, <<"ip1.">>, <<"ip2">>, <<"ip2", "ip1">> }

\* the record data of a list of answers, trimmed
RecordData(ans) == { TrimDots(ans[i]) : i \in 1..Len(ans) }

\* insertRecordData
InsertRecordData(set, ans) == set \cup RecordData(ans)

\* intersectRecordData
IntersectRecordData_Union(set, ans) == set \cup RecordData(ans)

IntersectRecordData(set, ans) == set \cap RecordData(ans)

\* wildcardTest, the loop over the probes from probe i on: the set of the
\* common record data
RECURSIVE ProbeLoop(_, _, _)
ProbeLoop(probes, i, set) ==
    IF i >= Len(probes) THEN set
    ELSE ProbeLoop(probes, i + 1,
                   IF i = 0 THEN InsertRecordData(set, probes[i + 1])
                   ELSE IntersectRecordData(set, probes[i + 1]))

\* wildcardTest: one of the probes returned records
RetRecords(probes) == \E i \in 1..Len(probes) : Len(probes[i]) > 0

\* wildcardTest: all the answers of the probes, in order
RECURSIVE AllAnswers(_, _)
AllAnswers(probes, i) ==
    IF i > Len(probes) THEN <<>> ELSE probes[i] \o AllAnswers(probes, i + 1)

\* wildcardTest: the answers whose trimmed data is in the set, each data once
RECURSIVE FinalAnswers(_, _, _, _)
FinalAnswers(answers, i, set, already) ==
    IF i > Len(answers) THEN <<>>
    ELSE LET data == TrimDots(answers[i]) IN
         IF data \in set /\ data \notin already
         THEN <<data>> \o FinalAnswers(answers, i + 1, set, already \cup {data})
         ELSE FinalAnswers(answers, i + 1, set, already)

\* wildcardTest: the entry sent as the result of the test
TestEntry(probes) ==
    LET set   == ProbeLoop(probes, 0, {})
        final == FinalAnswers(AllAnswers(probes, 1), 1, set, {})
    IN  [WildcardType |-> IF RetRecords(probes)
                          THEN (IF Len(final) = 0 THEN WildcardTypeDynamic
                                ELSE WildcardTypeStatic)
                          ELSE WildcardTypeNone,
         Answers |-> final,
         beingTested |-> FALSE,
         found |-> TRUE]

\* manageWildcards: the entry put in the map when a test is started
Placeholder == [WildcardType |-> WildcardTypeNone, Answers |-> <<>>, beingTested |-> TRUE,
                found |-> TRUE]

\* manageWildcards: the entry is cached and can be given out
Cached_AnyEntry(w) == w.found

Cached(w) == w.found /\ ~w.beingTested

\* fetchWildcardType: sends the request and waits for the entry
FetchWildcardType(c) ==
    /\ fpc[c] = "idle"
    /\ \A b \in FetchCalls : b < c => fpc[b] # "idle"
    /\ \E sub \in WcSubs :
         /\ fsub' = [fsub EXCEPT ![c] = sub]
         /\ chWildcardReq' = Append(chWildcardReq, [Sub |-> sub, c |-> c])
    /\ fpc' = [fpc EXCEPT ![c] = "waiting"]
    /\ wtLast' = NoTest
    /\ UNCHANGED <<notWcVars, wcMap, chTestResult, resend, fans, wtPc, wcTests>>

\* manageWildcards, case WildcardReq: a cached entry is sent to the caller,
\* which returns it; a request for a suffix under test is handed to
\* resendWildcardReq; for a suffix without an entry the placeholder is
\* stored, the test started and the request handed to resendWildcardReq
ManageWildcardReq ==
    /\ chWildcardReq # <<>>
    /\ LET req == Head(chWildcardReq)
           w   == wcMap[req.Sub]
       IN  IF Cached(w)
           THEN /\ fans' = [fans EXCEPT ![req.c] = w]
                /\ fpc' = [fpc EXCEPT ![req.c] = "done"]
                /\ UNCHANGED <<wcMap, resend, wtPc, wcTests>>
           ELSE IF w.found /\ w.beingTested
           THEN /\ resend' = resend \cup {req}
                /\ UNCHANGED <<wcMap, fans, fpc, wtPc, wcTests>>
           ELSE /\ wcMap' = [wcMap EXCEPT ![req.Sub] = Placeholder]
                /\ wtPc' = [wtPc EXCEPT ![req.Sub] = "running"]
                /\ wcTests' = [wcTests EXCEPT ![req.Sub] = @ + 1]
                /\ resend' = resend \cup {req}
                /\ UNCHANGED <<fans, fpc>>
    /\ chWildcardReq' = Tail(chWildcardReq)
    /\ wtLast' = NoTest
    /\ UNCHANGED <<notWcVars, chTestResult, fsub>>

\* manageWildcards, case TestResult: the result replaces the entry
ManageTestResult ==
    /\ chTestResult # <<>>
    /\ LET test == Head(chTestResult) IN
         wcMap' = [wcMap EXCEPT ![test.Sub] = test.Result]
    /\ chTestResult' = Tail(chTestResult)
    /\ wtLast' = NoTest
    /\ UNCHANGED <<notWcVars, chWildcardReq, resend, fpc, fsub, fans, wtPc, wcTests>>

\* resendWildcardReq: after the sleep the request goes back on the channel
ResendWildcardReq(req) ==
    /\ req \in resend
    /\ resend' = resend \ {req}
    /\ chWildcardReq' = Append(chWildcardReq, req)
    /\ wtLast' = NoTest
    /\ UNCHANGED <<notWcVars, wcMap, chTestResult, fpc, fsub, fans, wtPc, wcTests>>

\* the answers of the probes of one test
TestProbes == [1..numOfWildcardTests -> ProbeAnswers]

\* the entries a test can send
TestEntries == { TestEntry(probes) : probes \in TestProbes }

\* wildcardTest: the send of the result and the end of the goroutine
SendTestResult(sub, entry) ==
    /\ wtPc[sub] = "running"
    /\ chTestResult' = Append(chTestResult, [Sub |-> sub, Result |-> entry])
    /\ wtPc' = [wtPc EXCEPT ![sub] = "done"]
    /\ UNCHANGED <<notWcVars, wcMap, chWildcardReq, resend, fpc, fsub, fans, wcTests>>

\* wildcardTest: the probes, the common answers, the type and the send of
\* the result
WildcardTestRun(sub) ==
    /\ \E entry \in TestEntries : SendTestResult(sub, entry)
    /\ wtLast' = NoTest

\* wildcardTest as WildcardTestRun, with the probes kept in wtLast; the
\* probes of one test are kept at a time
WildcardTestProbes(sub) ==
    /\ wtLast = NoTest
    /\ \E probes \in TestProbes :
         /\ SendTestResult(sub, TestEntry(probes))
         /\ wtLast' = [Sub |-> sub, probes |-> probes, Result |-> TestEntry(probes)]

WcInit ==
    /\ WcStart
    /\ busMax = MaxBusSem
    /\ BusStart
    /\ semSize = MaxSem
    /\ SemStart
    /\ PoolStart
    /\ HdStart
    /\ SdStart
    /\ DcStart
    /\ IdStart
    /\ RotStart
    /\ DupStart
    /\ TimesStart
    /\ BackoffStart
    /\ SqStart
    /\ enPassive = FALSE
    /\ enMaxDNS = MaxDNSQ
    /\ EnumStart
    /\ DomStart
    /\ domSrcs = MaxSrcs
    /\ domHasDns = TRUE
    /\ FilterStart
    /\ filterMaxSize = MaxFilterSize
    /\ DnsStart
    /\ ResStart

WcNext ==
    \/ \E c \in FetchCalls : FetchWildcardType(c)
    \/ ManageWildcardReq
    \/ ManageTestResult
    \/ \E req \in resend : ResendWildcardReq(req)
    \/ \E sub \in WcSubs : WildcardTestRun(sub)

WcSpec == WcInit /\ [][WcNext]_vars

\* the wildcard tests by themselves: the requests that start them, and the
\* tests with their probes
WcTestNext ==
    \/ \E c \in FetchCalls : FetchWildcardType(c)
    \/ ManageWildcardReq
    \/ \E sub \in WcSubs : WildcardTestProbes(sub)

WcTestSpec == WcInit /\ [][WcTestNext]_vars

\* the record data every probe of a test returned
RECURSIVE CommonData(_, _)
CommonData(probes, i) ==
    IF i = Len(probes) THEN RecordData(probes[i])
    ELSE RecordData(probes[i]) \cap CommonData(probes, i + 1)

\* the data of a list of answers are all different
NoDuplicates(ans) == \A i, j \in 1..Len(ans) : i # j => ans[i] # ans[j]

\* C18: a wildcard test gives None exactly when no probe returned a record,
\* Static exactly when some record data is common to all probes, and then
\* its answers are that common data, each once; it gives Dynamic exactly
\* when some probe returned a record and no data is common to all probes.
C18_Classification ==
    wtLast # NoTest =>
        LET probes == wtLast.probes
            res    == wtLast.Result
            common == CommonData(probes, 1)
        IN  /\ res.WildcardType = WildcardTypeNone
                 <=> \A i \in 1..numOfWildcardTests : probes[i] = <<>>
            /\ res.WildcardType = WildcardTypeStatic <=> common # {}
            /\ res.WildcardType = WildcardTypeStatic
                 => (RecordData(res.Answers) = common /\ NoDuplicates(res.Answers))
            /\ res.WildcardType = WildcardTypeDynamic
                 <=> ((\E i \in 1..numOfWildcardTests : probes[i] # <<>>) /\ common = {})

\* a test whose probes returned the same data with and without a dot, and
\* other data besides, gives Static with the common data once
C18_Witness ==
    /\ wtLast # NoTest
    /\ wtLast.Result.WildcardType = WildcardTypeStatic
    /\ wtLast.Result.Answers = <<"ip1">>
    /\ \E i, j \in 1..numOfWildcardTests :
         wtLast.probes[i] = <<"ip1.">> /\ wtLast.probes[j] = <<"ip2", "ip1">>

\* C18 as stated: Dynamic exactly when every probe returned records and no
\* data is common to all of them.
C18_Original ==
    wtLast # NoTest =>
        (wtLast.Result.WildcardType = WildcardTypeDynamic
            <=> ((\A i \in 1..numOfWildcardTests : wtLast.probes[i] # <<>>)
                 /\ CommonData(wtLast.probes, 1) = {}))

\* a request of fetchWildcardType that has not been answered is on the
\* channel or with a resendWildcardReq goroutine, once
Pending(c) ==
    Cardinality({ i \in 1..Len(chWildcardReq) : chWildcardReq[i].c = c })
      + Cardinality({ req \in resend : req.c = c })

\* C19: at most one wildcard test is started for a suffix; a request that
\* cannot be answered yet is kept for later, and a call is answered only
\* after the test of its suffix has sent its result, with that result,
\* never with the placeholder.
C19_OneTestPerSuffix ==
    /\ \A sub \in WcSubs : wcTests[sub] <= 1
    /\ \A c \in FetchCalls :
         /\ fpc[c] = "waiting" => Pending(c) = 1
         /\ fpc[c] = "done" =>
              /\ Pending(c) = 0
              /\ wtPc[fsub[c]] = "done"
              /\ ~fans[c].beingTested
              /\ fans[c] = wcMap[fsub[c]]

\* three calls for the same suffix are answered with the Static result of
\* its one test
C19_Witness ==
    /\ \A c \in FetchCalls : fpc[c] = "done" /\ fsub[c] = RootDomain
    /\ wcTests[RootDomain] = 1
    /\ wcMap[RootDomain].WildcardType = WildcardTypeStatic

-----------------------------------------------------------------------------
(* hasWildcard and the cache of wildcard entries *)

\* the labels of the suffixes hasWildcard asks about for a name: the name
\* without its first label, or the root domain itself
LabelsOf(name) == IF Len(name) > Len(RootDomain) THEN Tail(name) ELSE name

\* the positions of those suffixes; a larger position is nearer the root
LevelsOf(name) == 0..(Len(LabelsOf(name)) - Len(RootDomain))

\* the entry of the suffix at position i in a map
EntryAt(map, name, i) == map[Suffix(LabelsOf(name), i)]

\* the suffix at position i is cached as Dynamic
IsDynamic(map, name, i) ==
    EntryAt(map, name, i).found /\ EntryAt(map, name, i).WildcardType = WildcardTypeDynamic

\* the suffix at position i is cached as Static
IsStatic(map, name, i) ==
    EntryAt(map, name, i).found /\ EntryAt(map, name, i).WildcardType = WildcardTypeStatic

\* the records contain one of the answers of the suffix at position i
HasAnswer(map, name, i, records) == records \cap EntryAt(map, name, i).Answers # {}

\* hasWildcard: the suffix at position i decides the call
Decides(map, name, i, records) ==
    \/ IsDynamic(map, name, i)
    \/ IsStatic(map, name, i) /\ (records = {} \/ HasAnswer(map, name, i, records))

\* the position of the first suffix that decides, from the root
FirstDeciding(map, name, records) ==
    CHOOSE i \in LevelsOf(name) :
        /\ Decides(map, name, i, records)
        /\ \A j \in LevelsOf(name) : j > i => ~Decides(map, name, j, records)

\* the verdict of a call is that of the first suffix, from the root, that
\* decides: Dynamic for a suffix cached Dynamic, Static for a suffix cached
\* Static when the request has no records or one of the suffix's answers;
\* None when no suffix decides
FirstSuffixDecides(map, call) ==
    LET name == call.Name
        recs == call.Records
    IN  IF \E i \in LevelsOf(name) : Decides(map, name, i, recs)
        THEN call.Type = (IF IsDynamic(map, name, FirstDeciding(map, name, recs))
                          THEN WildcardTypeDynamic ELSE WildcardTypeStatic)
        ELSE call.Type = WildcardTypeNone

\* C20: a call of hasWildcard gives the verdict of the first suffix that
\* decides, walking from the root domain to the parent of the name: a
\* suffix cached Dynamic decides Dynamic whatever the records, a suffix
\* cached Static decides Static for a request without records or with one
\* of its answers; the call gives None when no suffix decides.
C20_FirstSuffixDecides ==
    hw # NoCall => FirstSuffixDecides(wildcards, hw)

\* a request with the answer of its Static parent, under a root domain
\* without a wildcard, has been classified Static
C20_Witness ==
    /\ hw # NoCall
    /\ hw.Type = WildcardTypeStatic
    /\ Len(hw.Name) > Len(RootDomain) + 1
    /\ IsStatic(wildcards, hw.Name, 0)
    /\ HasAnswer(wildcards, hw.Name, 0, hw.Records)
    /\ \A i \in LevelsOf(hw.Name) : i > 0 =>
          (EntryAt(wildcards, hw.Name, i).found
           /\ EntryAt(wildcards, hw.Name, i).WildcardType = WildcardTypeNone)

\* a request without records has been classified Static by the root
\* domain, above a suffix cached Dynamic
C20_StaticOverDynamic ==
    /\ hw # NoCall
    /\ hw.Type = WildcardTypeStatic
    /\ hw.Records = {}
    /\ \E i \in LevelsOf(hw.Name) : IsDynamic(wildcards, hw.Name, i)

\* C20 as stated: Static under every Static suffix with one of its answers,
\* Dynamic under every Dynamic suffix, None under no Static or Dynamic
\* suffix.
C20_Original ==
    hw # NoCall =>
        LET name == hw.Name
        IN  /\ \A i \in LevelsOf(name) :
                 (IsStatic(wildcards, name, i)
                  /\ HasAnswer(wildcards, name, i, hw.Records))
                    => hw.Type = WildcardTypeStatic
            /\ \A i \in LevelsOf(name) :
                 IsDynamic(wildcards, name, i) => hw.Type = WildcardTypeDynamic
            /\ (\A i \in LevelsOf(name) :
                   ~IsStatic(wildcards, name, i) /\ ~IsDynamic(wildcards, name, i))
                    => hw.Type = WildcardTypeNone

\* the suffixes of a name between its parent and the root domain
ParentSuffixes(name) == { Suffix(name, i) : i \in 1..(Len(name) - Len(RootDomain)) }

\* the name lies under a suffix the wildcard detector has classified as Dynamic
UnderDynamic(name) ==
    \E s \in ParentSuffixes(name) :
        wildcards[s].found /\ wildcards[s].WildcardType = WildcardTypeDynamic

\* GetWildcardType reports Dynamic for a request of this name as it comes
\* in, without records: the first suffix from the root that is cached
\* Static or Dynamic is Dynamic
ReportsDynamic(map, name) ==
    \E i \in LevelsOf(name) :
        /\ IsDynamic(map, name, i)
        /\ \A j \in LevelsOf(name) : j > i => ~IsStatic(map, name, j)

\* the goroutine of call c publishes the name of its request in this step
PublishesOwnName(c) ==
    /\ dpc'[c] # dpc[c]
    /\ \E p \in published' \ published : p.Name = dreq[c].Name

\* C4: the goroutine of a request with an untrusted tag never publishes the
\* name of the request on the NameResolved topic when GetWildcardType
\* reports Dynamic for it, on any path (processDNSRequest, processSubdomain
\* with the tag DNS, resolvedName); and a name published with an untrusted
\* tag lies under no suffix classified as Dynamic.
C4_DynamicNeverPublished ==
    [][/\ \A c \in DnsCalls :
            (~TrustedTag(dreq[c].Tag) /\ PublishesOwnName(c))
                => ~ReportsDynamic(wildcards, dreq[c].Name)
       /\ \A p \in published' : ~TrustedTag(p.Tag) => ~UnderDynamic(p.Name)]_vars

\* processSubdomain has just ended the goroutine of an untrusted request on
\* the verdict Dynamic; its name is not published, while the names of two
\* other requests are, one with an untrusted tag and one by
\* subdomainQueries
C4_Witness ==
    /\ hw.Ret = "sub_gate"
    /\ hw.Type = WildcardTypeDynamic
    /\ hw.Name \notin { p.Name : p \in published }
    /\ \E p \in published : ~TrustedTag(p.Tag)
    /\ \E p \in published : p.Tag = "dns" /\ Len(p.Name) > Len(RootDomain)

\* C4 as stated: the goroutine of a request with an untrusted tag never
\* publishes the name of the request when the name lies under a suffix
\* classified as Dynamic.
C4_Original ==
    [][\A c \in DnsCalls :
         (~TrustedTag(dreq[c].Tag) /\ PublishesOwnName(c))
             => ~UnderDynamic(dreq[c].Name)]_vars

-----------------------------------------------------------------------------
(* The last step of hasWildcard.                                           *)

\* no suffix of the loop of hasWildcard decides the call: none is Dynamic,
\* and none is Static for a request without records or with one of its
\* answers
NoSuffixDecides(map, call) ==
    \A i \in LevelsOf(call.Name) :
        /\ ~IsDynamic(map, call.Name, i)
        /\ ~(IsStatic(map, call.Name, i)
             /\ (call.Records = {} \/ HasAnswer(map, call.Name, i, call.Records)))

\* the suffixes of a name with cached answers
AnsweredLevels(map, name) ==
    { i \in LevelsOf(name) :
        EntryAt(map, name, i).found /\ EntryAt(map, name, i).Answers # {} }

\* three or more suffixes of the name have cached answers with a common one
ThreeLevelsAgree(map, name) ==
    /\ Cardinality(AnsweredLevels(map, name)) >= 3
    /\ \E a \in UNION { EntryAt(map, name, i).Answers : i \in AnsweredLevels(map, name) } :
          \A i \in AnsweredLevels(map, name) : a \in EntryAt(map, name, i).Answers

\* C21: a call of hasWildcard that no suffix decides gives Static when
\* three or more suffixes of the name have cached answers with a common
\* one, and None otherwise.
C21_AcrossLevelsStatic ==
    (hw # NoCall /\ NoSuffixDecides(wildcards, hw)) =>
        hw.Type = (IF ThreeLevelsAgree(wildcards, hw.Name)
                   THEN WildcardTypeStatic ELSE WildcardTypeNone)

-----------------------------------------------------------------------------
(* DomainManager (enum/names.go): the release of the root domains to the   *)
(* data sources. Enumeration.Start creates the manager, gives it the       *)
(* domains of the configuration and stops it when it returns; useManagers  *)
(* calls OutputRequests from the main loop.                                *)

\* the requests InputName is given: nil (the empty tuple), or a name and
\* a domain
DomRequests == {<<>>} \cup { <<n, d>> : n \in {"", "www"}, d \in DomDomains }

\* InputName: the request is nil or has an empty name or domain
DomInvalid(req) == req = <<>> \/ req[1] = "" \/ req[2] = ""

\* DomainManager.InputName
DomInputName ==
    /\ ~domStopped /\ ~domPanic
    /\ Len(domInputs) < MaxDomInputs
    /\ \E req \in DomRequests :
         IF DomInvalid(req)
         THEN UNCHANGED <<domQueue, domFilter, domInputs>>
         ELSE LET d == FilterDuplicate(domFilter, req[2])
              IN  /\ domInputs' = Append(domInputs, req[2])
                  /\ domFilter' = d.filter
                  /\ domQueue' = IF d.dup THEN domQueue ELSE QueueAppend(domQueue, req[2])
    /\ UNCHANGED <<notDomVars, domSrcs, domHasDns, curDomain, srcIndex, domRecent, domPanic,
                   domStopped, domReleased, domOuts>>

\* nextDomainAndSrc: the domain and the source index of the next release,
\* with the fields after the call; domain "" when the queue is empty
NextDomainAndSrc_NoRotation(queue, cur, idx, n) ==
    IF QueueEmpty(queue)
    THEN [domain |-> "", index |-> 0, queue |-> queue, cur |-> cur, idx |-> idx - 1]
    ELSE [domain |-> Head(queue), index |-> n - 1, queue |-> Tail(queue),
          cur |-> Head(queue), idx |-> n - 1]

NextDomainAndSrc(queue, cur, idx, n) ==
    IF cur = "" \/ idx - 1 < 0
    THEN IF QueueEmpty(queue)
         THEN [domain |-> "", index |-> 0, queue |-> queue, cur |-> cur, idx |-> idx - 1]
         ELSE [domain |-> Head(queue), index |-> n - 1, queue |-> Tail(queue),
               cur |-> Head(queue), idx |-> n - 1]
    ELSE [domain |-> cur, index |-> idx - 1, queue |-> queue, cur |-> cur, idx |-> idx - 1]

\* DomainManager.OutputRequests: nothing while the last release is less
\* than 5 seconds old (with a DNS service); otherwise the current domain
\* goes to the next source. The result is the value returned and the
\* fields after the call; srcs[index] panics for an index out of range.
DomainOutput(queue, cur, idx, recent, hasDns, n) ==
    IF hasDns /\ recent
    THEN [ret |-> 0, queue |-> queue, cur |-> cur, idx |-> idx, recent |-> recent,
          released |-> <<>>, panic |-> FALSE]
    ELSE LET r == NextDomainAndSrc(queue, cur, idx, n)
         IN  IF r.domain = ""
             THEN [ret |-> 0, queue |-> r.queue, cur |-> r.cur, idx |-> r.idx,
                   recent |-> recent, released |-> <<>>, panic |-> FALSE]
             ELSE IF r.index \in 0..(n - 1)
             THEN [ret |-> 1, queue |-> r.queue, cur |-> r.cur, idx |-> r.idx,
                   recent |-> TRUE, released |-> <<r.domain, r.index>>, panic |-> FALSE]
             ELSE [ret |-> 0, queue |-> r.queue, cur |-> r.cur, idx |-> r.idx,
                   recent |-> TRUE, released |-> <<>>, panic |-> TRUE]

\* a call of DomainManager.OutputRequests
DomOutputRequests ==
    /\ ~domStopped /\ ~domPanic
    /\ domOuts < MaxDomOutputs
    /\ domOuts' = domOuts + 1
    /\ LET r == DomainOutput(domQueue, curDomain, srcIndex, domRecent, domHasDns, domSrcs)
       IN  /\ domQueue' = r.queue
           /\ curDomain' = r.cur
           /\ srcIndex' = r.idx
           /\ domRecent' = r.recent
           /\ domPanic' = r.panic
           /\ domReleased' = IF r.released = <<>> THEN domReleased
                             ELSE Append(domReleased, r.released)
    /\ UNCHANGED <<notDomVars, domSrcs, domHasDns, domFilter, domStopped, domInputs>>

\* five seconds pass since the last release
DomElapse ==
    /\ ~domStopped /\ ~domPanic
    /\ domRecent
    /\ domRecent' = FALSE
    /\ UNCHANGED <<notDomVars, domSrcs, domHasDns, domQueue, domFilter, curDomain, srcIndex,
                   domPanic, domStopped, domInputs, domReleased, domOuts>>

\* DomainManager.Stop, deferred by Enumeration.Start: no call follows it
DomStop ==
    /\ ~domStopped
    /\ domStopped' = TRUE
    /\ domQueue' = <<>>
    /\ domFilter' = {}
    /\ UNCHANGED <<notDomVars, domSrcs, domHasDns, curDomain, srcIndex, domRecent, domPanic,
                   domInputs, domReleased, domOuts>>

DomInit ==
    /\ DomStart
    /\ domSrcs \in 0..MaxSrcs
    /\ domHasDns \in BOOLEAN
    /\ PoolStart
    /\ HdStart
    /\ SdStart
    /\ DcStart
    /\ IdStart
    /\ RotStart
    /\ DupStart
    /\ TimesStart
    /\ BackoffStart
    /\ SqStart
    /\ enPassive = FALSE
    /\ enMaxDNS = MaxDNSQ
    /\ EnumStart
    /\ WcStart
    /\ semSize = MaxSem
    /\ SemStart
    /\ busMax = MaxBusSem
    /\ BusStart
    /\ filterMaxSize = MaxFilterSize
    /\ FilterStart
    /\ DnsStart
    /\ ResStart

DomNext ==
    \/ DomInputName
    \/ DomOutputRequests
    \/ DomElapse
    \/ DomStop

DomSpec == DomInit /\ [][DomNext]_vars

RECURSIVE FirstOccurrences(_)
\* the distinct elements of a sequence, in the order of their first place
FirstOccurrences(seq) ==
    IF seq = <<>> THEN <<>>
    ELSE LET rest == FirstOccurrences(SubSeq(seq, 1, Len(seq) - 1))
             last == seq[Len(seq)]
         IN  IF \E i \in 1..Len(rest) : rest[i] = last THEN rest ELSE Append(rest, last)

\* the releases of a list of domains: each domain in turn, to every source
\* from the last to the first
ReleasesOf(domains, n) ==
    [k \in 1..(Len(domains) * n) |->
        <<domains[((k - 1) \div n) + 1], n - 1 - ((k - 1) % n)>>]

IsPrefix(a, b) == Len(a) <= Len(b) /\ a = SubSeq(b, 1, Len(a))

\* C22: every OutputRequests call releases at most one (domain, source)
\* pair; the pairs released are, in the order the domains were first given
\* to InputName, each domain once to every source; and when the queue is
\* empty and the current domain has gone to its last source, every domain
\* given has been released to every source.
C22_EachDomainOncePerSource ==
    /\ Len(domReleased) <= domOuts
    /\ IsPrefix(domReleased, ReleasesOf(FirstOccurrences(domInputs), domSrcs))
    /\ (~domStopped /\ domQueue = <<>> /\ srcIndex <= 0 /\ (curDomain # "" \/ domInputs = <<>>))
         => domReleased = ReleasesOf(FirstOccurrences(domInputs), domSrcs)

\* two domains, one of them given twice, have each gone to both sources
C22_Witness ==
    /\ domSrcs = 2
    /\ Len(domInputs) = 3
    /\ Len(FirstOccurrences(domInputs)) = 2
    /\ Len(domReleased) = 4

-----------------------------------------------------------------------------
(* Enumeration.Start (enum/enum.go): the main loop with its three timers   *)
(* and useManagers. The queues of the managers and of the services are     *)
(* their lengths; the DomainManager is the one above. The names that come  *)
(* in, the work of the services and the reports of activity are steps of   *)
(* the environment.                                                        *)

\* requiredNumberOfNames in passive mode
PassiveRequired == 100000

\* requiredNumberOfNames with no name ever required
RequiredNumberOfNames_Never(passive, max, remaining) == 0

\* requiredNumberOfNames
RequiredNumberOfNames(passive, max, remaining) ==
    IF passive THEN PassiveRequired
    ELSE IF max - remaining < 0 THEN 0 ELSE max - remaining

\* NameManager.OutputNames(num) and SubdomainManager.OutputNames(num): the
\* number of names returned from a queue of length len
NamesOut(len, num) == IF num <= 0 THEN 0 ELSE Min(num, len)

\* SubdomainManager.OutputRequests(num): the value returned and the lengths
\* of subqueue and rqueue after the call
SubOutput(subLen, rLen, num, srcslen) ==
    LET toBeSent == IF srcslen > 0 THEN num \div srcslen ELSE num
    IN  IF toBeSent <= 0
        THEN [count |-> 0, sub |-> subLen, r |-> rLen]
        ELSE LET sublen == Min(toBeSent, subLen)
                 rlen   == IF subLen < toBeSent THEN toBeSent - subLen ELSE 0
                 rout   == Min(rlen, rLen)
             IN  [count |-> sublen + rout, sub |-> subLen - sublen, r |-> rLen - rout]

\* useManagers, the number of names still to take from the managers, with
\* the names taken so far left out of the account
Remaining_IgnoresCount(required, count) == required

\* useManagers: remaining := required - count
Remaining(required, count) == required - count

\* what a step of Start leaves alone
StartFrame ==
    /\ enMin' = NoMin
    /\ UNCHANGED <<sqVars, backoffVars, tmVars, dupVars, rotVars, idVars, dcVars, sdVars, hdVars,
                   filterVars, dnsVars, resVars, poolVars, semVars, busVars, wcVars,
                   domSrcs, domHasDns, domFilter, domPanic, domStopped, domInputs,
                   domReleased, domOuts,
                   enPassive, enMaxDNS, enEnded, enDone, enDnsLen, enDataLen>>

\* useManagers returns: the value goes to completed (completed := and
\* completed += in Start), and Start is in its loop
UseReturn(ret) ==
    /\ completed + ret <= MaxCompleted
    /\ completed' = completed + ret
    /\ enPc' = "loop"
    /\ enUse' = NoUse

\* useManagers up to its first call of a manager: required is read from
\* the DNS service, and 1 is returned when it is 0. managers is addrMgr,
\* nameMgr, subMgr, domainMgr, and nameMgr, domainMgr in passive mode (no
\* addrMgr then).
UseManagers ==
    /\ srcIndex > -MaxDomIdle
    /\ LET required == RequiredNumberOfNames(enPassive, enMaxDNS, enDnsLen)
           u == [NoUse EXCEPT !.required = required]
       IN  IF required = 0
           THEN UseReturn(1)
           ELSE /\ enPc' = "use"
                /\ enUse' = [u EXCEPT !.pc = IF enPassive THEN "names" ELSE "addr"]
                /\ UNCHANGED completed
    /\ enStep' = ""
    /\ StartFrame
    /\ UNCHANGED <<domQueue, curDomain, srcIndex, domRecent,
                   enNameQ, enSubQ, enSubReqQ, enSubRQ, enAddrQ, enRecent>>

\* Start: completed := e.useManagers(), before the loop
EnumFirstUse ==
    /\ enPc = "init"
    /\ UseManagers

\* Start: case <-more.C
MoreTick ==
    /\ enPc = "loop"
    /\ UseManagers

\* useManagers, the calls that take addresses and names from the managers,
\* one call in a step: addrMgr.OutputRequests(required / 2), which returns
\* 0, addrMgr.RequestQueueLen, and OutputNames(remaining) of nameMgr and of
\* subMgr, whose names are published (in passive mode they go to the graph
\* and are reported as activity). OutputNames of addrMgr and of domainMgr
\* return nothing.
UseOutputNames ==
    /\ enPc = "use"
    /\ \/ /\ enUse.pc = "addr"
          /\ enAddrQ' = AddrOutput(enAddrQ, enUse.required \div 2)
          /\ enUse' = [enUse EXCEPT !.pc = "addrlen"]
          /\ UNCHANGED <<enNameQ, enSubQ, enRecent>>
       \/ /\ enUse.pc = "addrlen"
          /\ enUse' = [enUse EXCEPT !.pc = "names", !.pending = enAddrQ]
          /\ UNCHANGED <<enAddrQ, enNameQ, enSubQ, enRecent>>
       \/ /\ enUse.pc = "names"
          /\ LET n == NamesOut(enNameQ, Remaining(enUse.required, enUse.count))
                 count == enUse.count + n
             IN  /\ enNameQ' = enNameQ - n
                 /\ enRecent' = (enRecent \/ (enPassive /\ n > 0))
                 /\ enUse' = [enUse EXCEPT
                                !.pc = IF ~enPassive /\ Remaining(enUse.required, count) > 0
                                       THEN "subnames" ELSE "namelen",
                                !.count = count,
                                !.published = IF enPassive THEN @ ELSE @ + n]
          /\ UNCHANGED <<enAddrQ, enSubQ>>
       \/ /\ enUse.pc = "subnames"
          /\ LET n == NamesOut(enSubQ, Remaining(enUse.required, enUse.count))
             IN  /\ enSubQ' = enSubQ - n
                 /\ enUse' = [enUse EXCEPT !.pc = "namelen", !.count = @ + n,
                                           !.published = @ + n]
          /\ UNCHANGED <<enAddrQ, enNameQ, enRecent>>
    /\ enStep' = ""
    /\ StartFrame
    /\ UNCHANGED <<domQueue, curDomain, srcIndex, domRecent, enSubReqQ, enSubRQ,
                   enPc, completed>>

\* useManagers, pending += mgr.NameQueueLen() for nameMgr and subMgr, one
\* call in a step (0 for addrMgr and domainMgr); after the last one the
\* call returns count unless pending < required
UseQueueLens ==
    /\ enPc = "use"
    /\ \/ /\ enUse.pc = "namelen"
          /\ ~enPassive
          /\ enUse' = [enUse EXCEPT !.pc = "sublen", !.pending = @ + enNameQ]
          /\ UNCHANGED <<enPc, completed>>
       \/ /\ \/ enUse.pc = "namelen" /\ enPassive
             \/ enUse.pc = "sublen"
          /\ LET len == IF enPassive THEN enNameQ ELSE enSubQ
                 u == [enUse EXCEPT !.pending = @ + len]
             IN  IF u.pending < u.required
                 THEN /\ enUse' = [u EXCEPT !.pc = IF enPassive THEN "reqdom" ELSE "reqaddr"]
                      /\ UNCHANGED <<enPc, completed>>
                 ELSE UseReturn(u.count)
    /\ enStep' = ""
    /\ StartFrame
    /\ UNCHANGED <<domQueue, curDomain, srcIndex, domRecent,
                   enNameQ, enSubQ, enSubReqQ, enSubRQ, enAddrQ, enRecent>>

\* useManagers, sent += mgr.OutputRequests(needed - sent), one call in a
\* step, for addrMgr (which returns 0), subMgr and domainMgr (nameMgr
\* returns 0); the call returns count + sent once sent >= needed and after
\* the last manager
UseOutputRequests ==
    /\ enPc = "use"
    /\ LET needed == enUse.required - enUse.pending
       IN  \/ /\ enUse.pc = "reqaddr"
              /\ enAddrQ' = AddrOutput(enAddrQ, needed - enUse.sent)
              /\ enUse' = [enUse EXCEPT !.pc = "reqsub"]
              /\ UNCHANGED <<enSubReqQ, enSubRQ, domQueue, curDomain, srcIndex, domRecent,
                             enPc, completed>>
           \/ /\ enUse.pc = "reqsub"
              /\ LET so == SubOutput(enSubReqQ, enSubRQ, needed - enUse.sent, domSrcs)
                     u == [enUse EXCEPT !.sent = @ + so.count]
                 IN  /\ enSubReqQ' = so.sub
                     /\ enSubRQ' = so.r
                     /\ IF u.sent >= needed
                        THEN UseReturn(u.count + u.sent)
                        ELSE /\ enUse' = [u EXCEPT !.pc = "reqdom"]
                             /\ UNCHANGED <<enPc, completed>>
              /\ UNCHANGED <<enAddrQ, domQueue, curDomain, srcIndex, domRecent>>
           \/ /\ enUse.pc = "reqdom"
              /\ LET d == DomainOutput(domQueue, curDomain, srcIndex, domRecent, ~enPassive,
                                       domSrcs)
                     u == [enUse EXCEPT !.sent = @ + d.ret]
                 IN  /\ domQueue' = d.queue
                     /\ curDomain' = d.cur
                     /\ srcIndex' = d.idx
                     /\ domRecent' = d.recent
                     /\ UseReturn(u.count + u.sent)
              /\ UNCHANGED <<enAddrQ, enSubReqQ, enSubRQ>>
    /\ enStep' = ""
    /\ StartFrame
    /\ UNCHANGED <<enNameQ, enSubQ, enRecent>>

\* isDataManagerQueueEmpty
IsDataManagerQueueEmpty(len) == len = 0

\* Start, case <-t.C: the run ends
Inactive_IgnoresCompleted(count, inactive) == inactive

Inactive(count, inactive) == count = 0 /\ inactive

\* what a step of Start at one of its timers leaves alone
TimerFrame ==
    /\ enUse' = NoUse
    /\ enMin' = NoMin
    /\ UNCHANGED <<notEnumVars, domVars,
                   enPassive, enMaxDNS, enNameQ, enSubQ, enSubReqQ, enSubRQ, enAddrQ,
                   enDnsLen, enDataLen, enRecent>>

\* Start, case <-t.C, the decision with the value of inactive
TDecide(inactive) ==
    /\ enStep' = "t"
    /\ IF Inactive(completed, inactive)
       THEN /\ enDone' = TRUE
            /\ enPc' = "ended"
            /\ enEnded' = "idle"
            /\ UNCHANGED completed
       ELSE /\ completed' = 0
            /\ enPc' = "loop"
            /\ UNCHANGED <<enDone, enEnded>>

\* Start: case <-t.C, up to the call of isDataManagerQueueEmpty. With
\* requests in the queue inactive stays false; with none Start goes on to
\* read lastActive.
TTick ==
    /\ enPc = "loop"
    /\ IF IsDataManagerQueueEmpty(enDataLen)
       THEN /\ enPc' = "t_active"
            /\ enStep' = ""
            /\ UNCHANGED <<enDone, enEnded, completed>>
       ELSE TDecide(FALSE)
    /\ TimerFrame

\* Start: case <-t.C, inactive = time.Since(e.lastActive()) > 10 seconds
\* and the decision, after the queue was found empty
TTickActive ==
    /\ enPc = "t_active"
    /\ TDecide(~enRecent)
    /\ TimerFrame

\* the figures dnsQueriesPerSec gives at a per-minute check: the average
\* number of queries per second and of retries
MinFigures == { <<0, 0>>, <<5, 0>>, <<20, 0>>, <<20, 18>>, <<20, 19>> }

\* Start, case <-perMin.C: the run ends
TooSlow_AnyRate(sec, retries, len) ==
    IsDataManagerQueueEmpty(len) /\ (sec < 10 \/ retries * 100 > 90 * sec)

TooSlow(sec, retries, len) ==
    sec > 0 /\ IsDataManagerQueueEmpty(len) /\ (sec < 10 \/ retries * 100 > 90 * sec)

\* Start: case <-perMin.C
PerMinTick ==
    /\ enPc = "loop"
    /\ enStep' = ""
    /\ \E f \in (IF enPassive THEN {<<0, 0>>} ELSE MinFigures) :
         /\ enMin' = IF enPassive THEN NoMin ELSE [sec |-> f[1], retries |-> f[2]]
         /\ IF ~enPassive /\ TooSlow(f[1], f[2], enDataLen)
            THEN /\ enDone' = TRUE
                 /\ enPc' = "ended"
                 /\ enEnded' = "rate"
            ELSE UNCHANGED <<enDone, enPc, enEnded>>
    /\ enUse' = NoUse
    /\ UNCHANGED <<sqVars, backoffVars, tmVars, dupVars, rotVars, idVars, dcVars, sdVars, hdVars,
                   filterVars, dnsVars, resVars, poolVars, semVars, busVars, wcVars, domVars,
                   enPassive, enMaxDNS, enNameQ, enSubQ, enSubReqQ, enSubRQ, enAddrQ,
                   enDnsLen, enDataLen, enRecent, completed>>

\* Start: case <-e.done
LoopDone ==
    /\ enPc = "loop"
    /\ enDone
    /\ enPc' = "ended"
    /\ enEnded' = "done"
    /\ enStep' = ""
    /\ enUse' = NoUse
    /\ enMin' = NoMin
    /\ UNCHANGED <<sqVars, backoffVars, tmVars, dupVars, rotVars, idVars, dcVars, sdVars, hdVars,
                   filterVars, dnsVars, resVars, poolVars, semVars, busVars, wcVars, domVars,
                   enPassive, enMaxDNS, enDone, enNameQ, enSubQ, enSubReqQ, enSubRQ, enAddrQ,
                   enDnsLen, enDataLen, enRecent, completed>>

\* what a step of the environment leaves alone
EnvFrame ==
    /\ enPc # "ended"
    /\ enStep' = ""
    /\ UNCHANGED enUse
    /\ enMin' = NoMin
    /\ UNCHANGED <<sqVars, backoffVars, tmVars, dupVars, rotVars, idVars, dcVars, sdVars, hdVars,
                   filterVars, dnsVars, resVars, poolVars, semVars, busVars, wcVars,
                   domSrcs, domHasDns, domQueue, domFilter, curDomain, srcIndex, domPanic,
                   domStopped, domInputs, domReleased, domOuts,
                   enPassive, enMaxDNS, enPc, enEnded, completed>>

\* Enumeration.Done, by the timeout of the configuration or by the caller
EnvDone ==
    /\ ~enDone
    /\ enDone' = TRUE
    /\ EnvFrame
    /\ UNCHANGED <<enNameQ, enSubQ, enSubReqQ, enSubRQ, enAddrQ, enDnsLen, enDataLen,
                   enRecent, domRecent>>

\* a manager or a service gets one more element: a new name, a proper
\* subdomain, a resolved name, an address, a DNS request, a data request
EnvArrive ==
    /\ \E k \in (IF enPassive THEN {1} ELSE 1..7) :
         LET lens == <<enNameQ, enSubQ, enSubReqQ, enSubRQ, enAddrQ, enDnsLen, enDataLen>>
             next == [lens EXCEPT ![k] = @ + 1]
         IN  /\ lens[k] < MaxEnumQ
             /\ enNameQ' = next[1]
             /\ enSubQ' = next[2]
             /\ enSubReqQ' = next[3]
             /\ enSubRQ' = next[4]
             /\ enAddrQ' = next[5]
             /\ enDnsLen' = next[6]
             /\ enDataLen' = next[7]
    /\ EnvFrame
    /\ UNCHANGED <<enDone, enRecent, domRecent>>

\* the DNS service or the data manager finishes a request
EnvServe ==
    /\ \/ enDnsLen > 0 /\ enDnsLen' = enDnsLen - 1 /\ UNCHANGED enDataLen
       \/ enDataLen > 0 /\ enDataLen' = enDataLen - 1 /\ UNCHANGED enDnsLen
    /\ EnvFrame
    /\ UNCHANGED <<enDone, enNameQ, enSubQ, enSubReqQ, enSubRQ, enAddrQ, enRecent, domRecent>>

\* updateLastActive, on the topic SetActive
EnvActive ==
    /\ ~enRecent
    /\ enRecent' = TRUE
    /\ EnvFrame
    /\ UNCHANGED <<enDone, enNameQ, enSubQ, enSubReqQ, enSubRQ, enAddrQ, enDnsLen, enDataLen,
                   domRecent>>

\* ten seconds pass without a report of activity
EnvQuiet ==
    /\ enRecent
    /\ enRecent' = FALSE
    /\ EnvFrame
    /\ UNCHANGED <<enDone, enNameQ, enSubQ, enSubReqQ, enSubRQ, enAddrQ, enDnsLen, enDataLen,
                   domRecent>>

\* five seconds pass since the last release of a domain
EnvElapse ==
    /\ domRecent
    /\ domRecent' = FALSE
    /\ EnvFrame
    /\ UNCHANGED <<enDone, enNameQ, enSubQ, enSubReqQ, enSubRQ, enAddrQ, enDnsLen, enDataLen,
                   enRecent>>

\* the domains of the configuration, given to the DomainManager by Start
EnumDomains == {<<>>, <<"a.com">>}

EnumInit ==
    /\ enPassive \in BOOLEAN
    /\ enMaxDNS \in 1..MaxDNSQ
    /\ EnumStart
    /\ domSrcs \in 1..MaxSrcs
    /\ domHasDns = ~enPassive
    /\ domQueue \in EnumDomains
    /\ domFilter = { domQueue[i] : i \in 1..Len(domQueue) }
    /\ domInputs = domQueue
    /\ curDomain = ""
    /\ srcIndex = 0
    /\ domRecent = TRUE
    /\ domPanic = FALSE
    /\ domStopped = FALSE
    /\ domReleased = <<>>
    /\ domOuts = 0
    /\ PoolStart
    /\ HdStart
    /\ SdStart
    /\ DcStart
    /\ IdStart
    /\ RotStart
    /\ DupStart
    /\ TimesStart
    /\ BackoffStart
    /\ SqStart
    /\ WcStart
    /\ semSize = MaxSem
    /\ SemStart
    /\ busMax = MaxBusSem
    /\ BusStart
    /\ filterMaxSize = MaxFilterSize
    /\ FilterStart
    /\ DnsStart
    /\ ResStart

EnumNext ==
    \/ EnumFirstUse
    \/ MoreTick
    \/ UseOutputNames
    \/ UseQueueLens
    \/ UseOutputRequests
    \/ TTick
    \/ TTickActive
    \/ PerMinTick
    \/ LoopDone
    \/ EnvDone
    \/ EnvArrive
    \/ EnvServe
    \/ EnvActive
    \/ EnvQuiet
    \/ EnvElapse

EnumSpec == EnumInit /\ [][EnumNext]_vars

\* C23: a tick of the timer t ends the run exactly when the data-manager
\* queue was empty when the tick examined it, the last activity, read after
\* that, is more than 10 seconds old and useManagers has returned 0 in
\* total since the tick before (the value of completed); a tick that finds
\* requests in the queue decides at once; a tick that does not end the run
\* sets completed to 0; and nothing but a tick ends the run as idle.
C23_InactivityEnd ==
    [][/\ (enStep' = "t") =>
            /\ (enEnded' = "idle") <=> (enPc = "t_active" /\ ~enRecent /\ completed = 0)
            /\ (enEnded' # "idle") => (enEnded' = enEnded /\ enPc' = "loop" /\ completed' = 0)
            /\ (enPc = "loop") => (enDataLen # 0)
       /\ (enPc # "t_active" /\ enPc' = "t_active") => (enPc = "loop" /\ enDataLen = 0)
       /\ (enEnded # "idle" /\ enEnded' = "idle") => (enStep' = "t")]_vars

\* the timer t has ended a run in which useManagers had sent a domain to
\* a data source before, with a request in the data-manager queue that
\* came in after the tick had found the queue empty
C23_Witness ==
    /\ enEnded = "idle"
    /\ enStep = "t"
    /\ curDomain # ""
    /\ enDataLen > 0

\* C23 as stated: a tick of the timer t ends the run only when, at the
\* decision, the data-manager queue is empty, the last activity is more
\* than 10 seconds old and completed is 0.
C23_Original ==
    [][(enStep' = "t" /\ enEnded' = "idle") =>
         (enDataLen = 0 /\ ~enRecent /\ completed = 0)]_vars

\* the run ends at a per-minute check with the figures sec and retries
EndsAtRate(sec, retries) == sec > 0 /\ enDataLen = 0 /\ (sec < 10 \/ retries * 100 > 90 * sec)

\* C25: a per-minute check in non-passive mode ends the run exactly when
\* the average number of queries per second is above 0, the data-manager
\* queue is empty, and the average is below 10 or the retries are above
\* 90 percent of it.
C25_PerMinuteEnd ==
    [][enMin' # NoMin =>
         (enEnded' = "rate") <=> EndsAtRate(enMin'.sec, enMin'.retries)]_vars

\* a per-minute check has ended a run with 20 queries per second and 19
\* retries
C25_Witness ==
    /\ enEnded = "rate"
    /\ enMin = [sec |-> 20, retries |-> 19]

\* C25 as stated: a per-minute check in non-passive mode ends the run if
\* the average number of queries per second is below 10 or the retries
\* are above 90 percent.
C25_Original ==
    [][enMin' # NoMin =>
         ((enMin'.sec < 10 \/ enMin'.retries * 100 > 90 * enMin'.sec) => enEnded' = "rate")]_vars

\* MaxDNSQueries less the requests pending in the DNS service, at least 0
RequiredOf(max, remaining) == IF max - remaining > 0 THEN max - remaining ELSE 0

\* a step of Start that begins a call of useManagers
UseBegins == enPc \in {"init", "loop"} /\ (enPc' = "use" \/ completed' > completed)

-----------------------------------------------------------------------------
(* The idle enumeration: no name, address or request arrives, the services *)
(* have nothing pending and nothing reports activity. The timers of the    *)
(* loop keep firing, and the 10 seconds since the last activity and the 5  *)
(* seconds since the last release of a domain pass.                        *)

EnumIdleNext ==
    \/ EnumFirstUse
    \/ MoreTick
    \/ UseOutputNames
    \/ UseQueueLens
    \/ UseOutputRequests
    \/ TTick
    \/ TTickActive
    \/ PerMinTick
    \/ EnvQuiet
    \/ EnvElapse

EnumIdleFairness ==
    /\ WF_vars(EnumFirstUse)
    /\ WF_vars(MoreTick)
    /\ WF_vars(UseOutputNames)
    /\ WF_vars(UseQueueLens)
    /\ WF_vars(UseOutputRequests)
    /\ WF_vars(TTick)
    /\ WF_vars(TTickActive)
    /\ WF_vars(EnvQuiet)
    /\ WF_vars(EnvElapse)

EnumIdleSpec == EnumInit /\ [][EnumIdleNext]_vars /\ EnumIdleFairness

-----------------------------------------------------------------------------
(* The frame of checkResFilter.                                            *)

\* the step appends the request decided to altSourcesQueue
AppendsDecided ==
    /\ Len(altSourcesQueue') = Len(altSourcesQueue) + 1
    /\ SubSeq(altSourcesQueue', 1, Len(altSourcesQueue)) = altSourcesQueue
    /\ Join(altSourcesQueue'[Len(altSourcesQueue')].Name) = hist'.last.name
    /\ altSourcesQueue'[Len(altSourcesQueue')].Tag = hist'.last.tag

\* C27: checkResFilter appends a request to altSourcesQueue exactly when
\* it rejects it; a rejection leaves resFilterCount unchanged; an admission
\* makes it one more than it was, or 1 when the call has reset the filter
\* because the count had reached its capacity.
C27_RejectedAreQueued ==
    [][Decided =>
         IF hist'.last.admit
         THEN /\ altSourcesQueue' = altSourcesQueue
              /\ resFilterCount' = (IF hist'.last.reset THEN 0 ELSE resFilterCount) + 1
         ELSE /\ AppendsDecided
              /\ ~hist'.last.reset
              /\ resFilterCount' = resFilterCount]_vars

\* a trusted submission has been admitted and counted, with a rejected
\* request waiting in altSourcesQueue
C27_Witness ==
    /\ hist.last.admit /\ ~hist.last.reset
    /\ TrustedTag(hist.last.tag)
    /\ resFilterCount >= 2
    /\ Len(altSourcesQueue) >= 1

\* C27 as stated: an admission increments resFilterCount by exactly one.
C27_Original ==
    [][Decided =>
         IF hist'.last.admit
         THEN /\ altSourcesQueue' = altSourcesQueue
              /\ resFilterCount' = resFilterCount + 1
         ELSE /\ AppendsDecided
              /\ resFilterCount' = resFilterCount]_vars

\* C32: a call of checkResFilter resets the filter exactly when the count has
\* reached filterMaxSize, never while it is below; the count never exceeds
\* filterMaxSize; the reset sets the count to 0 and empties the filter, and
\* the call then admits its request, so it ends with the count 1 and the key
\* of the request as the only one in the filter.
C32_ResetAtCapacity ==
    [][Decided =>
         /\ hist'.last.reset <=> resFilterCount >= filterMaxSize
         /\ resFilterCount <= filterMaxSize
         /\ hist'.last.reset =>
               /\ hist'.last.admit
               /\ resFilterCount' = 1
               /\ Cardinality(resFilter') = 1]_vars

\* a call has reset the filter and admitted its request
C32_Witness ==
    /\ hist.last.reset
    /\ hist.last.admit
    /\ hist.resets >= 1
    /\ resFilterCount = 1

\* C32 as stated: the filter is reset only after the count has exceeded
\* filterMaxSize.
C32_Original ==
    [][(Decided /\ hist'.last.reset) => resFilterCount > filterMaxSize]_vars

\* C30: after the k-th scan in a row that found no publication the
\* dispatcher sleeps for the k-th value of 10, 25, 50, 75, 100, 150, 250 ms,
\* and for 250 ms from the 7th on; a dequeue restarts the count, so the
\* first scan after it that finds nothing is followed by 10 ms.
C30_BackoffSchedule == busRun > 0 => busSlept = delays[busRun]

-----------------------------------------------------------------------------
\* BaseResolver.sendQueries, pass by pass

\* sendQueries: the most requests one pass writes
MaxPerPass == 100

\* sendQueries: maxIdx and delays, in milliseconds
sqMaxIdx == 6
sqDelays == <<5, 10, 15, 25, 50, 75, 100>>

\* no queue: the value of p after the last queue, and of sqWrote in a step
\* that writes no request
NoBand == PriorityLow - 1

\* a step of the sender that neither writes nor sleeps
SqQuiet == sqWrote' = NoBand /\ sqSlept' = 0

\* Resolve: the request is appended to the queue of its priority
SqAppend(p) ==
    /\ sqAppended < MaxSendQ
    /\ sqQueues' = [sqQueues EXCEPT ![p] = @ + 1]
    /\ sqAppended' = sqAppended + 1
    /\ SqQuiet
    /\ UNCHANGED <<notSqVars, sqDone, sqPc, sqBand, sqCount, sqSent, sqCurIdx, sqRun>>

\* the owner of the resolver closes its exported channel Done (Stop itself
\* leaves it open)
SqStop ==
    /\ ~sqDone
    /\ sqDone' = TRUE
    /\ SqQuiet
    /\ UNCHANGED <<notSqVars, sqQueues, sqPc, sqBand, sqCount, sqSent, sqCurIdx, sqAppended,
                   sqRun>>

\* sendQueries, the select: it returns when r.Done is closed, else a pass
\* starts at PriorityCritical with count 0
SqSelect ==
    /\ sqPc = "select"
    /\ IF sqDone
       THEN /\ sqPc' = "returned"
            /\ UNCHANGED <<sqBand, sqCount, sqSent>>
       ELSE /\ sqPc' = "pass"
            /\ sqBand' = PriorityCritical
            /\ sqCount' = 0
            /\ sqSent' = FALSE
    /\ SqQuiet
    /\ UNCHANGED <<notSqVars, sqQueues, sqDone, sqCurIdx, sqAppended, sqRun>>

\* sendQueries, the condition of the loops of a pass
InPass(p, count) == p >= PriorityLow /\ count < MaxPerPass

\* sendQueries, one call of Next in a pass: a request of the queue is
\* written, curIdx is reset and the pass stays at the queue; or the queue has
\* none, and the pass goes on with the queue below
SqNext ==
    /\ sqPc = "pass"
    /\ InPass(sqBand, sqCount)
    /\ IF sqQueues[sqBand] > 0
       THEN /\ sqQueues' = [sqQueues EXCEPT ![sqBand] = @ - 1]
            /\ sqWrote' = sqBand
            /\ sqCurIdx' = 0
            /\ sqRun' = 0
            /\ sqSent' = TRUE
            /\ sqCount' = sqCount + 1
            /\ UNCHANGED sqBand
       ELSE /\ sqBand' = sqBand - 1
            /\ sqWrote' = NoBand
            /\ UNCHANGED <<sqQueues, sqCurIdx, sqSent, sqCount, sqRun>>
    /\ sqSlept' = 0
    /\ UNCHANGED <<notSqVars, sqDone, sqPc, sqAppended>>

SqNextIdx_Stays(idx) == idx

\* sendQueries, the index after a sleep
SqNextIdx(idx) == IF idx < sqMaxIdx THEN idx + 1 ELSE idx

\* sendQueries after the loops of a pass: a pass that sent nothing sleeps
SqPassEnd ==
    /\ sqPc = "pass"
    /\ ~InPass(sqBand, sqCount)
    /\ IF ~sqSent
       THEN /\ sqSlept' = sqDelays[sqCurIdx + 1]
            /\ sqCurIdx' = SqNextIdx(sqCurIdx)
            /\ sqRun' = IF sqRun < Len(sqDelays) THEN sqRun + 1 ELSE sqRun
       ELSE /\ sqSlept' = 0
            /\ UNCHANGED <<sqCurIdx, sqRun>>
    /\ sqPc' = "select"
    /\ sqWrote' = NoBand
    /\ UNCHANGED <<notSqVars, sqQueues, sqDone, sqBand, sqCount, sqSent, sqAppended>>

SenderInit ==
    /\ SqStart
    /\ PoolStart
    /\ HdStart
    /\ SdStart
    /\ DcStart
    /\ IdStart
    /\ RotStart
    /\ DupStart
    /\ TimesStart
    /\ BackoffStart
    /\ enPassive = FALSE
    /\ enMaxDNS = MaxDNSQ
    /\ EnumStart
    /\ DomStart
    /\ domSrcs = MaxSrcs
    /\ domHasDns = TRUE
    /\ WcStart
    /\ semSize = MaxSem
    /\ SemStart
    /\ busMax = MaxBusSem
    /\ BusStart
    /\ FilterStart
    /\ filterMaxSize = MaxFilterSize
    /\ DnsStart
    /\ ResStart

SenderNext ==
    \/ \E p \in Priorities : SqAppend(p)
    \/ SqStop
    \/ SqSelect
    \/ SqNext
    \/ SqPassEnd

SenderSpec == SenderInit /\ [][SenderNext]_vars

\* C29: whenever the sender writes a request, no request is pending in a
\* queue of a higher priority.
C29_WritesInPriorityOrder ==
    sqWrote # NoBand => \A q \in Priorities : q > sqWrote => sqQueues[q] = 0

\* C31: the k-th pass in a row that sent nothing sleeps for the k-th value of
\* 5, 10, 15, 25, 50, 75, 100 ms, and for 100 ms from the 7th on; a pass that
\* sent a request restarts the count, so the first pass after it that sends
\* nothing sleeps 5 ms.  The values do not decrease along the sequence.
C31_SenderBackoff ==
    /\ sqSlept # 0 => (sqRun > 0 /\ sqSlept = sqDelays[sqRun])
    /\ \A k \in 1..(Len(sqDelays) - 1) : sqDelays[k] <= sqDelays[k + 1]
    /\ sqDelays[Len(sqDelays)] = 100

\* the first pass without a request after a pass that sent one sleeps 5 ms
C31_Witness ==
    /\ sqSlept = 5
    /\ sqRun = 1
    /\ sqAppended > 0
    /\ \A p \in Priorities : sqQueues[p] = 0

-----------------------------------------------------------------------------
\* timesForSubdomain and timesManager, with the goroutines of checkSubdomain

\* timesForSubdomain: the request is sent on timesChan
TmSend(g) ==
    /\ ~tmPanic
    /\ tmPc[g] = "idle"
    /\ Len(tmChan) < TimesChanSize
    /\ \E sub \in TmSubs : tmSub' = [tmSub EXCEPT ![g] = sub]
    /\ tmChan' = Append(tmChan, g)
    /\ tmPc' = [tmPc EXCEPT ![g] = "wait"]
    /\ UNCHANGED <<notTmVars, tmGot, tmMap, tmDone, tmAlive, tmHist, tmProbes, tmPanic>>

\* timesManager, case req := <-r.timesChan: the count of the suffix is
\* advanced and sent back on the channel of the request
TmServe ==
    /\ ~tmPanic
    /\ tmAlive
    /\ tmChan # <<>>
    /\ LET g     == Head(tmChan)
           sub   == tmSub[g]
           times == TimesAfter(tmMap, sub)
       IN  /\ tmMap' = [s \in DOMAIN tmMap \cup {sub} |->
                          IF s = sub THEN times ELSE tmMap[s]]
           /\ tmGot' = [tmGot EXCEPT ![g] = times]
           /\ tmPc' = [tmPc EXCEPT ![g] = "reply"]
           /\ tmHist' = [tmHist EXCEPT ![sub] = Append(@, times)]
    /\ tmChan' = Tail(tmChan)
    /\ UNCHANGED <<notTmVars, tmSub, tmDone, tmAlive, tmProbes, tmPanic>>

\* timesForSubdomain returns the value received, and checkSubdomain
\* publishes the suffix with it on SubDiscoveredTopic unless the suffix is
\* the root domain
TmReturn(g) ==
    /\ ~tmPanic
    /\ tmPc[g] = "reply"
    /\ tmPc' = [tmPc EXCEPT ![g] = IF tmSub[g] # TmDomain THEN "published" ELSE "done"]
    /\ UNCHANGED <<notTmVars, tmSub, tmGot, tmChan, tmMap, tmDone, tmAlive, tmHist, tmProbes, tmPanic>>

\* OnSubdomainDiscovered for the publication: processSubdomain is started
\* when times is 1
TmDiscovered(g) ==
    /\ ~tmPanic
    /\ tmPc[g] = "published"
    /\ tmProbes' = [tmProbes EXCEPT ![tmSub[g]] = IF tmGot[g] = 1 THEN @ + 1 ELSE @]
    /\ tmPc' = [tmPc EXCEPT ![g] = "done"]
    /\ UNCHANGED <<notTmVars, tmSub, tmGot, tmChan, tmMap, tmDone, tmAlive, tmHist, tmPanic>>

TimesInit ==
    /\ PoolStart
    /\ HdStart
    /\ SdStart
    /\ DcStart
    /\ IdStart
    /\ RotStart
    /\ DupStart
    /\ TimesStart
    /\ BackoffStart
    /\ SqStart
    /\ enPassive = FALSE
    /\ enMaxDNS = MaxDNSQ
    /\ EnumStart
    /\ DomStart
    /\ domSrcs = MaxSrcs
    /\ domHasDns = TRUE
    /\ WcStart
    /\ semSize = MaxSem
    /\ SemStart
    /\ busMax = MaxBusSem
    /\ BusStart
    /\ FilterStart
    /\ filterMaxSize = MaxFilterSize
    /\ DnsStart
    /\ ResStart

TimesNext ==
    \/ \E g \in TmCalls : TmSend(g)
    \/ TmServe
    \/ \E g \in TmCalls : TmReturn(g)
    \/ \E g \in TmCalls : TmDiscovered(g)
    \/ TmStop
    \/ TmManagerDone

TimesSpec == TimesInit /\ [][TimesNext]_vars

\* the goroutines that have received the value v for the suffix s
Received(s, v) == { g \in TmCalls : tmSub[g] = s /\ tmGot[g] = v }

\* C33: for every suffix the values timesManager hands out are 1, 2, 3, ...
\* in this order, none repeated and none skipped, whatever the order in
\* which the goroutines of checkSubdomain send, are served and go on; no two
\* goroutines receive the same value, so 1 is received exactly once for a
\* suffix that was asked about; and processSubdomain is started at most once
\* for a suffix.
C33_TimesCountUp ==
    \A s \in TmSubs :
        /\ tmHist[s] = [i \in 1..Len(tmHist[s]) |-> i]
        /\ \A v \in 1..MaxTimesCalls :
             Cardinality(Received(s, v)) = (IF v <= Len(tmHist[s]) THEN 1 ELSE 0)
        /\ tmProbes[s] <= 1

\* three goroutines have asked about the same suffix, and the probing of the
\* suffix has been started once
C33_Witness ==
    /\ Len(tmHist["w.ex.com"]) = MaxTimesCalls
    /\ tmProbes["w.ex.com"] = 1
    /\ \A g \in TmCalls : tmPc[g] = "done"

-----------------------------------------------------------------------------
\* Enumeration.processDupNames

DupNames == {"a.ex.com", "b.ex.com"}

\* the steps by which the time advances, in seconds: the period of the
\* ticker, and a longer pause
DupPeriod == 5
DupSteps == {DupPeriod, 6 * DupPeriod}

\* time.Minute, in seconds
DupMinute == 60

\* checkResFilter rejects a request: altSourcesQueue.Append(req)
DupReject ==
    /\ dupNextId < MaxDups
    /\ \E name \in DupNames :
         dupQueue' = Append(dupQueue, [id |-> dupNextId + 1, Name |-> name])
    /\ dupNextId' = dupNextId + 1
    /\ UNCHANGED <<notDupVars, dupPending, dupNow, dupGraph, dupPc, dupN, dupCount, dupClosed,
                   dupHandled>>

\* the data manager inserts a name into the graph
DupNodeAdded ==
    /\ \E name \in DupNames \ dupGraph : dupGraph' = dupGraph \cup {name}
    /\ UNCHANGED <<notDupVars, dupQueue, dupPending, dupNow, dupPc, dupN, dupCount, dupClosed,
                   dupNextId, dupHandled>>

\* time passes
DupElapse ==
    /\ \E d \in DupSteps :
         /\ dupNow + d <= MaxDupTime
         /\ dupNow' = dupNow + d
    /\ UNCHANGED <<notDupVars, dupQueue, dupPending, dupGraph, dupPc, dupN, dupCount, dupClosed,
                   dupNextId, dupHandled>>

\* each, for every element of the queue: the request is appended to pending
\* with the time of this moment
Stamped(queue, now) == [i \in 1..Len(queue) |-> [id |-> queue[i].id, Name |-> queue[i].Name,
                                                  Timestamp |-> now]]

\* processDupNames, case <-e.altSourcesQueue.Signal: Process(each)
DupProcess ==
    /\ dupPc = "loop"
    /\ dupQueue # <<>>
    /\ dupPending' = dupPending \o Stamped(dupQueue, dupNow)
    /\ dupQueue' = <<>>
    /\ UNCHANGED <<notDupVars, dupNow, dupGraph, dupPc, dupN, dupCount, dupClosed, dupNextId,
                   dupHandled>>

TooYoung_Never(timestamp, n) == FALSE

\* processDupNames, case <-t.C: a.Timestamp.Add(time.Minute).After(n)
TooYoung(timestamp, n) == timestamp + DupMinute > n

\* Graph.ReadNode(name, "fqdn") returns no error: the node exists
ReadNode(graph, name) == name \in graph

\* processDupNames, case <-t.C: var count int; n := time.Now()
DupTick ==
    /\ dupPc = "loop"
    /\ dupPc' = "tick"
    /\ dupN' = dupNow
    /\ dupCount' = 0
    /\ UNCHANGED <<notDupVars, dupQueue, dupPending, dupNow, dupGraph, dupClosed, dupNextId,
                   dupHandled>>

\* processDupNames, case <-t.C: the range over pending has an entry left and
\* does not break at it
DupMore == dupCount < Len(dupPending) /\ ~TooYoung(dupPending[dupCount + 1].Timestamp, dupN)

\* processDupNames, case <-t.C: one pass of the range over pending. The
\* entry is credited by InsertFQDN when ReadNode finds its name in the graph
\* of this moment, and counted in either case
DupHandle ==
    /\ dupPc = "tick"
    /\ DupMore
    /\ LET a == dupPending[dupCount + 1]
       IN  dupHandled' = Append(dupHandled, [id |-> a.id, Name |-> a.Name,
                                            age |-> dupN - a.Timestamp,
                                            credited |-> ReadNode(dupGraph, a.Name)])
    /\ dupCount' = dupCount + 1
    /\ UNCHANGED <<notDupVars, dupQueue, dupPending, dupNow, dupGraph, dupPc, dupN, dupClosed,
                   dupNextId>>

\* processDupNames, case <-t.C: the range ends or breaks, pending = pending[count:]
DupTickEnd ==
    /\ dupPc = "tick"
    /\ ~DupMore
    /\ dupPending' = SubSeq(dupPending, dupCount + 1, Len(dupPending))
    /\ dupPc' = "loop"
    /\ dupN' = 0
    /\ dupCount' = 0
    /\ UNCHANGED <<notDupVars, dupQueue, dupNow, dupGraph, dupClosed, dupNextId, dupHandled>>

\* Done: e.done is closed
DupClose ==
    /\ ~dupClosed
    /\ dupClosed' = TRUE
    /\ UNCHANGED <<notDupVars, dupQueue, dupPending, dupNow, dupGraph, dupPc, dupN, dupCount,
                   dupNextId, dupHandled>>

\* processDupNames, case <-e.done, and Process(each) after the loop
DupReturn ==
    /\ dupPc = "loop"
    /\ dupClosed
    /\ dupPc' = "returned"
    /\ dupPending' = dupPending \o Stamped(dupQueue, dupNow)
    /\ dupQueue' = <<>>
    /\ UNCHANGED <<notDupVars, dupNow, dupGraph, dupN, dupCount, dupClosed, dupNextId, dupHandled>>

DupInit ==
    /\ PoolStart
    /\ HdStart
    /\ SdStart
    /\ DcStart
    /\ IdStart
    /\ RotStart
    /\ DupStart
    /\ TimesStart
    /\ BackoffStart
    /\ SqStart
    /\ enPassive = FALSE
    /\ enMaxDNS = MaxDNSQ
    /\ EnumStart
    /\ DomStart
    /\ domSrcs = MaxSrcs
    /\ domHasDns = TRUE
    /\ WcStart
    /\ semSize = MaxSem
    /\ SemStart
    /\ busMax = MaxBusSem
    /\ BusStart
    /\ FilterStart
    /\ filterMaxSize = MaxFilterSize
    /\ DnsStart
    /\ ResStart

DupNext ==
    \/ DupReject
    \/ DupNodeAdded
    \/ DupElapse
    \/ DupProcess
    \/ DupTick
    \/ DupHandle
    \/ DupTickEnd
    \/ DupClose
    \/ DupReturn

DupSpec == DupInit /\ [][DupNext]_vars

\* C34: whenever processDupNames handles an entry (credits or drops it), the
\* entry is the next one of pending in the order of queueing and later than
\* every entry handled before, it is at least 60 s old at the time the tick
\* read, and it is credited only if its name is an FQDN node of the graph at
\* the moment it is handled.
C34_OldEntriesInOrder ==
    [][Len(dupHandled') > Len(dupHandled) =>
         /\ Len(dupHandled') = Len(dupHandled) + 1
         /\ dupPc = "tick" /\ dupCount < Len(dupPending)
         /\ LET a == dupPending[dupCount + 1]
                h == dupHandled'[Len(dupHandled')]
            IN  /\ h.id = a.id /\ h.Name = a.Name
                /\ \A i \in 1..Len(dupHandled) : dupHandled[i].id < h.id
                /\ \A i \in 1..dupCount : dupPending[i].id < h.id
                /\ dupN - a.Timestamp >= DupMinute
                /\ h.credited => a.Name \in dupGraph]_vars

\* one tick has credited an entry that was exactly 60 s old and has dropped
\* the next one, whose name the graph lacked when the entry was handled and
\* holds now, and a younger entry is still pending
C34_Witness ==
    /\ Len(dupHandled) = 2
    /\ dupHandled[1].age = 60 /\ dupHandled[1].credited
    /\ ~dupHandled[2].credited /\ dupHandled[2].Name \in dupGraph
    /\ dupPc = "loop"
    /\ dupPending # <<>>

-----------------------------------------------------------------------------
\* BaseResolver.periodicRotations, currentConnection and lastConnection

\* initRotationChans: the capacity of the three channels
RotChanSize == 10

\* the variables of the callers of the accessors
acVars == <<acPc, acKind, acConn, acLate>>

\* the ticker of periodicRotations: go r.rotateConnections(), which sends on
\* the channel Rotate
RotTick ==
    /\ rotAlive
    /\ rotTicks + 1 < MaxRotations
    /\ rotTokens < RotChanSize
    /\ rotTicks' = rotTicks + 1
    /\ rotTokens' = rotTokens + 1
    /\ rotStep' = NoRot
    /\ UNCHANGED <<notRotVars, rotCurrent, rotLast, rotDialled, rotClosed, rotAlive, rotDone,
                   rotChCurrent, rotChLast, acVars>>

Rotated_ClosesCurrent(current, last, dialled) ==
    [closed |-> {current} \ {0}, last |-> current, current |-> dialled + 1]

\* periodicRotations, case <-chs.Rotate: last is closed unless it is nil,
\* current becomes last, and the socket dialled becomes current
Rotated(current, last, dialled) ==
    [closed |-> {last} \ {0}, last |-> current, current |-> dialled + 1]

\* periodicRotations, case <-chs.Rotate; the loop around DialContext ends
\* with the first dial that succeeds
RotRotate ==
    /\ rotAlive
    /\ rotTokens > 0
    /\ rotTokens' = rotTokens - 1
    /\ LET r == Rotated(rotCurrent, rotLast, rotDialled)
       IN  /\ rotClosed' = rotClosed \cup r.closed
           /\ rotLast' = r.last
           /\ rotCurrent' = r.current
           /\ rotDialled' = rotDialled + 1
           /\ rotStep' = [closed |-> r.closed, oldCurrent |-> rotCurrent,
                          oldLast |-> rotLast, fresh |-> r.current]
    /\ UNCHANGED <<notRotVars, rotTicks, rotAlive, rotDone, rotChCurrent, rotChLast, acVars>>

\* currentConnection or lastConnection: a reply channel is made and sent on
\* the channel Current or Last
ConnSend(c) ==
    /\ acPc[c] = "idle"
    /\ \E kind \in {"current", "last"} :
         /\ acKind' = [acKind EXCEPT ![c] = kind]
         /\ IF kind = "current"
            THEN /\ Len(rotChCurrent) < RotChanSize
                 /\ rotChCurrent' = Append(rotChCurrent, c)
                 /\ UNCHANGED rotChLast
            ELSE /\ Len(rotChLast) < RotChanSize
                 /\ rotChLast' = Append(rotChLast, c)
                 /\ UNCHANGED rotChCurrent
    /\ acPc' = [acPc EXCEPT ![c] = "sent"]
    /\ rotStep' = NoRot
    /\ UNCHANGED <<notRotVars, rotCurrent, rotLast, rotDialled, rotClosed, rotTokens, rotTicks,
                   rotAlive, rotDone, acConn, acLate>>

\* periodicRotations, case cch := <-chs.Current: current, or nil, is sent
\* on the reply channel
RotServeCurrent ==
    /\ rotAlive
    /\ rotChCurrent # <<>>
    /\ acConn' = [acConn EXCEPT ![Head(rotChCurrent)] = rotCurrent]
    /\ acPc' = [acPc EXCEPT ![Head(rotChCurrent)] = "replied"]
    /\ rotChCurrent' = Tail(rotChCurrent)
    /\ rotStep' = NoRot
    /\ UNCHANGED <<notRotVars, rotCurrent, rotLast, rotDialled, rotClosed, rotTokens, rotTicks,
                   rotAlive, rotDone, rotChLast, acKind, acLate>>

\* periodicRotations, case lch := <-chs.Last
RotServeLast ==
    /\ rotAlive
    /\ rotChLast # <<>>
    /\ acConn' = [acConn EXCEPT ![Head(rotChLast)] = rotLast]
    /\ acPc' = [acPc EXCEPT ![Head(rotChLast)] = "replied"]
    /\ rotChLast' = Tail(rotChLast)
    /\ rotStep' = NoRot
    /\ UNCHANGED <<notRotVars, rotCurrent, rotLast, rotDialled, rotClosed, rotTokens, rotTicks,
                   rotAlive, rotDone, rotChCurrent, acKind, acLate>>

\* what has closed a socket: a rotation closes the socket that was last,
\* which is neither current nor last afterwards; the case Done closes the
\* two that are current and last when the loop returns
ClosedBy(co) ==
    IF co \notin rotClosed THEN "no"
    ELSE IF co \in {rotCurrent, rotLast} THEN "done"
    ELSE "rotation"

\* currentConnection or lastConnection, co := <-ch: a socket is returned;
\* after nil the call receives from ch once more, and nothing is ever sent
\* on ch again
ConnReceive(c) ==
    /\ acPc[c] = "replied"
    /\ IF acConn[c] # 0
       THEN /\ acPc' = [acPc EXCEPT ![c] = "returned"]
            /\ acLate' = [acLate EXCEPT ![c] = ClosedBy(acConn[c])]
       ELSE /\ acPc' = [acPc EXCEPT ![c] = "second"]
            /\ UNCHANGED acLate
    /\ rotStep' = NoRot
    /\ UNCHANGED <<notRotVars, rotCurrent, rotLast, rotDialled, rotClosed, rotTokens, rotTicks,
                   rotAlive, rotDone, rotChCurrent, rotChLast, acKind, acConn>>

\* the owner of the resolver closes its exported channel Done (Stop itself
\* leaves it open)
RotStop ==
    /\ ~rotDone
    /\ rotDone' = TRUE
    /\ rotStep' = NoRot
    /\ UNCHANGED <<notRotVars, rotCurrent, rotLast, rotDialled, rotClosed, rotTokens, rotTicks,
                   rotAlive, rotChCurrent, rotChLast, acVars>>

\* periodicRotations, case <-r.Done: current and last are closed, and the
\* loop returns
RotReturn ==
    /\ rotAlive /\ rotDone
    /\ rotAlive' = FALSE
    /\ rotClosed' = rotClosed \cup ({rotCurrent, rotLast} \ {0})
    /\ rotStep' = NoRot
    /\ UNCHANGED <<notRotVars, rotCurrent, rotLast, rotDialled, rotTokens, rotTicks,
                   rotDone, rotChCurrent, rotChLast, acVars>>

RotInit ==
    /\ PoolStart
    /\ HdStart
    /\ SdStart
    /\ DcStart
    /\ IdStart
    /\ RotStart
    /\ DupStart
    /\ TimesStart
    /\ BackoffStart
    /\ SqStart
    /\ enPassive = FALSE
    /\ enMaxDNS = MaxDNSQ
    /\ EnumStart
    /\ DomStart
    /\ domSrcs = MaxSrcs
    /\ domHasDns = TRUE
    /\ WcStart
    /\ semSize = MaxSem
    /\ SemStart
    /\ busMax = MaxBusSem
    /\ BusStart
    /\ FilterStart
    /\ filterMaxSize = MaxFilterSize
    /\ DnsStart
    /\ ResStart

RotNext ==
    \/ RotTick
    \/ RotRotate
    \/ \E c \in RotCalls : ConnSend(c)
    \/ RotServeCurrent
    \/ RotServeLast
    \/ \E c \in RotCalls : ConnReceive(c)
    \/ RotStop
    \/ RotReturn

RotSpec == RotInit /\ [][RotNext]_vars

\* the calls that have been answered with a socket
Answered == { c \in RotCalls : acPc[c] \in {"replied", "returned"} /\ acConn[c] # 0 }

\* a rotation closes the socket that was last and no other, makes the socket
\* that was current the new last, and makes a socket that was never used
\* before the new current
RotationAsSpecified ==
    rotStep # NoRot =>
        /\ rotStep.closed = {rotStep.oldLast} \ {0}
        /\ rotLast = rotStep.oldCurrent
        /\ rotCurrent = rotStep.fresh
        /\ rotStep.fresh \notin {0, rotStep.oldCurrent, rotStep.oldLast} \cup rotClosed

\* current and last are different sockets, and neither is closed while the
\* loop runs
OpenAndDistinct ==
    /\ rotCurrent # 0 => rotCurrent # rotLast
    /\ rotAlive => rotClosed \cap {rotCurrent, rotLast} = {}

\* periodicRotations answers a call with a socket that is open at that
\* moment
RepliesOpen ==
    \A c \in RotCalls :
        (acPc[c] = "sent" /\ acPc'[c] = "replied") => acConn'[c] \notin rotClosed'

\* C35: a rotation closes only the socket that was last, demotes current to
\* last and dials a fresh current; current and last are never the same
\* socket, neither of them has been closed by a rotation, and the rotation
\* loop answers currentConnection and lastConnection only with a socket
\* that no rotation has closed at the moment of the answer.
C35_RotationWindow ==
    /\ [](RotationAsSpecified /\ OpenAndDistinct)
    /\ [][RepliesOpen]_vars

\* the third rotation has closed the first socket, and a call of
\* lastConnection has returned the second one
C35_Witness ==
    /\ rotAlive
    /\ rotClosed = {1}
    /\ rotLast = 2
    /\ \E c \in RotCalls : acPc[c] = "returned" /\ acKind[c] = "last" /\ acConn[c] = 2

\* C35 as stated: no accessor returns a socket that a rotation has closed.
C35_Original ==
    /\ RotationAsSpecified
    /\ OpenAndDistinct
    /\ \A c \in RotCalls : acLate[c] # "rotation"

RotFairSpec ==
    /\ RotSpec
    /\ WF_vars(RotRotate)
    /\ WF_vars(RotServeCurrent)
    /\ WF_vars(RotServeLast)
    /\ \A c \in RotCalls : WF_vars(ConnReceive(c))

\* C36: while the rotation loop is running, a call of currentConnection or
\* lastConnection that has sent its reply channel returns to its caller.
C36_AccessorsReturn ==
    \A c \in RotCalls :
        (acPc[c] = "sent") ~> (acPc[c] = "returned" \/ rotDone)

-----------------------------------------------------------------------------
\* nextID with the width of its loop variable

\* nextID: var largest uint16 = (1 << 16) - 1
largest == IdSpace - 1

IdInc_Saturating(i) == IF i = largest THEN largest ELSE i + 1

\* i++ on an unsigned integer of IdBits bits
IdInc(i) == (i + 1) % IdSpace

\* i-- on an unsigned integer of IdBits bits
IdDec(i) == (i + IdSpace - 1) % IdSpace

\* manageXchgState, case GetID: nextID is called, and dns.Id() gives start
NextIDCall(start) ==
    /\ idPc = "idle"
    /\ idPc' = "up"
    /\ idStart' = start
    /\ idI' = start
    /\ idSteps' = 0
    /\ idBefore' = idMap
    /\ UNCHANGED <<notIdVars, idMap, idRet>>

\* nextID, one iteration of the first loop (i <= largest) or of the second
\* (i >= 0): an ID without an entry gets one and is returned; the first loop
\* is left for the second when i exceeds largest, and the second for
\* return 0 when i is below 0
NextIDStep ==
    /\ idPc \in {"up", "down"}
    /\ idSteps' = IF idSteps > IdSpace THEN idSteps ELSE idSteps + 1
    /\ IF (idPc = "up" /\ idI <= largest) \/ (idPc = "down" /\ idI >= 0)
       THEN IF idI \notin idMap
            THEN /\ idMap' = idMap \cup {idI}
                 /\ idRet' = idI
                 /\ idPc' = "returned"
                 /\ UNCHANGED idI
            ELSE /\ idI' = IF idPc = "up" THEN IdInc(idI) ELSE IdDec(idI)
                 /\ UNCHANGED <<idMap, idRet, idPc>>
       ELSE IF idPc = "up"
            THEN /\ idPc' = "down"
                 /\ idI' = IdDec(idStart)
                 /\ UNCHANGED <<idMap, idRet>>
            ELSE /\ idPc' = "returned"
                 /\ idRet' = 0
                 /\ UNCHANGED <<idMap, idI>>
    /\ UNCHANGED <<notIdVars, idStart, idBefore>>

\* manageXchgState, c <- nextID(xchgs): the ID is sent to the caller of getID
NextIDReply ==
    /\ idPc = "returned"
    /\ idPc' = "idle"
    /\ UNCHANGED <<notIdVars, idMap, idStart, idI, idSteps, idBefore, idRet>>

\* manageXchgState, case PullRequest: the entry of an ID is deleted
IdPull(id) ==
    /\ idPc = "idle"
    /\ id \in idMap
    /\ idMap' = idMap \ {id}
    /\ UNCHANGED <<notIdVars, idPc, idStart, idI, idSteps, idBefore, idRet>>

IdInit ==
    /\ PoolStart
    /\ HdStart
    /\ SdStart
    /\ DcStart
    /\ IdStart
    /\ RotStart
    /\ DupStart
    /\ TimesStart
    /\ BackoffStart
    /\ SqStart
    /\ enPassive = FALSE
    /\ enMaxDNS = MaxDNSQ
    /\ EnumStart
    /\ DomStart
    /\ domSrcs = MaxSrcs
    /\ domHasDns = TRUE
    /\ WcStart
    /\ semSize = MaxSem
    /\ SemStart
    /\ busMax = MaxBusSem
    /\ BusStart
    /\ FilterStart
    /\ filterMaxSize = MaxFilterSize
    /\ DnsStart
    /\ ResStart

IdNext ==
    \/ \E start \in 0..largest : NextIDCall(start)
    \/ NextIDStep
    \/ NextIDReply
    \/ \E id \in 0..largest : IdPull(id)

IdSpec == IdInit /\ [][IdNext]_vars

\* the distance from a to b, counting upwards modulo 2^IdBits
UpFrom(a, b) == (b + IdSpace - a) % IdSpace

\* C37: a call of nextID that finds an ID without an entry looks up at most
\* 2^IdBits IDs, upwards from dns.Id() modulo 2^IdBits, and returns the
\* first ID on that way that had no entry, with an entry made for it.
C37_NextIDWraps ==
    /\ (idPc \in {"up", "down"} /\ idBefore # 0..largest) =>
           /\ idPc = "up"
           /\ idSteps < IdSpace
           /\ idI = (idStart + idSteps) % IdSpace
           /\ \A k \in 0..(idSteps - 1) : (idStart + k) % IdSpace \in idBefore
    /\ idPc = "returned" =>
           /\ idBefore # 0..largest
           /\ idRet \notin idBefore
           /\ idMap = idBefore \cup {idRet}
           /\ idSteps <= IdSpace
           /\ \A j \in 0..largest :
                  UpFrom(idStart, j) < UpFrom(idStart, idRet) => j \in idBefore

\* nextID has gone past the largest ID and has returned an ID below dns.Id()
C37_Witness ==
    /\ idPc = "returned"
    /\ idRet < idStart
    /\ idStart \in idBefore
    /\ largest \in idBefore

-----------------------------------------------------------------------------
\* ResolverPool.SubdomainToDomain

RECURSIVE CacheWalk(_, _, _)
\* SubdomainToDomain, the loop over the cache: i runs from len(labels) down
\* to 0, so the empty suffix comes first and the whole name last; the first
\* suffix in the cache ends the loop.  <<>> is the empty string.
CacheWalk(cache, labels, i) ==
    IF i < 0 THEN <<>>
    ELSE IF Suffix(labels, i) \in cache THEN Suffix(labels, i)
    ELSE CacheWalk(cache, labels, i - 1)

RECURSIVE LabelWalk(_, _, _)
\* SubdomainToDomain, the loop over the DNS: i runs from 0 up to
\* len(labels) - 2, so the whole name comes first and the last label alone
\* is not asked; the first suffix that answers the NS query ends the loop,
\* and the domain is pieces[0], the first piece of ns[0].Data
LabelWalk(zones, labels, i) ==
    IF i >= Len(labels) - 1 THEN <<>>
    ELSE IF zones[Suffix(labels, i)] # <<>> THEN zones[Suffix(labels, i)]
    ELSE LabelWalk(zones, labels, i + 1)

\* SubdomainToDomain(name), under domainLock: the answer of the cache when
\* it has one, or else the answer of the DNS, which is stored in the cache
SubdomainToDomain(name) ==
    LET hit == CacheWalk(domainCache, name, Len(name))
        dom == LabelWalk(dcZones, name, 0)
    IN  /\ dcName' = name
        /\ dcCached' = (hit # <<>>)
        /\ dcRet' = IF hit # <<>> THEN hit ELSE dom
        /\ domainCache' = IF hit = <<>> /\ dom # <<>>
                          THEN domainCache \cup {dom} ELSE domainCache
        /\ UNCHANGED <<notDcVars, dcZones>>

DcInit ==
    /\ PoolStart
    /\ HdStart
    /\ SdStart
    /\ dcZones \in [DcZoneNames -> {<<>>} \cup DcZoneNames]
    /\ DcEmpty
    /\ IdStart
    /\ RotStart
    /\ DupStart
    /\ TimesStart
    /\ BackoffStart
    /\ SqStart
    /\ enPassive = FALSE
    /\ enMaxDNS = MaxDNSQ
    /\ EnumStart
    /\ DomStart
    /\ domSrcs = MaxSrcs
    /\ domHasDns = TRUE
    /\ WcStart
    /\ semSize = MaxSem
    /\ SemStart
    /\ busMax = MaxBusSem
    /\ BusStart
    /\ FilterStart
    /\ filterMaxSize = MaxFilterSize
    /\ DnsStart
    /\ ResStart

DcNext == \E name \in DcNames : SubdomainToDomain(name)

DcSpec == DcInit /\ [][DcNext]_vars

\* C38: a call of SubdomainToDomain that is served from the cache returns
\* the domain that the walk over the labels of its name returns with the
\* same DNS answers.
C38_CacheAgreesWithWalk ==
    dcCached => dcRet = LabelWalk(dcZones, dcName, 0)

-----------------------------------------------------------------------------
\* Subscribe, Publish and processRequests on one topic, with the history of
\* which call returned before which

\* NewEventBus: the capacity of the channel Subscribe
SubscribeChanSize == 10

\* EventBus.Subscribe(topic, fn): the request is sent on the channel, and
\* the call returns
SdSubscribe(fn) ==
    /\ fn \notin sdReturned
    /\ Len(sdChan) < SubscribeChanSize
    /\ sdChan' = Append(sdChan, fn)
    /\ sdReturned' = sdReturned \cup {fn}
    /\ UNCHANGED <<notSdVars, sdTopics, sdQueues, sdPc, sdGot, sdHandled, sdBand, sdCur,
                   sdCbs, sdPermits, sdExec, sdPubs>>

\* EventBus.Publish(topic, priority): the publication is appended to the
\* queue of its priority; owed holds the callbacks whose Subscribe had
\* returned before
SdPublish(priority) ==
    /\ sdPubs < MaxSdPubs
    /\ sdPubs' = sdPubs + 1
    /\ sdQueues' = [sdQueues EXCEPT ![priority] =
                       Append(@, [n |-> sdPubs + 1, owed |-> sdReturned])]
    /\ UNCHANGED <<notSdVars, sdChan, sdTopics, sdPc, sdReturned, sdGot, sdHandled, sdBand,
                   sdCur, sdCbs, sdPermits, sdExec>>

\* processRequests, select, case sub := <-chs.Subscribe: the callback is
\* appended to the callbacks of the topic
SdSelectSubscribe ==
    /\ sdPc = "select"
    /\ sdChan # <<>>
    /\ sdTopics' = Append(sdTopics, Head(sdChan))
    /\ sdChan' = Tail(sdChan)
    /\ UNCHANGED <<notSdVars, sdQueues, sdPc, sdReturned, sdGot, sdHandled, sdBand, sdCur,
                   sdCbs, sdPermits, sdExec, sdPubs>>

\* processRequests, select: no request waits, the default case is taken and
\* the scan of the queues starts at the critical one
SdSelectDefault ==
    /\ sdPc = "select"
    /\ sdChan = <<>>
    /\ sdPc' = "scan"
    /\ sdBand' = PriorityCritical
    /\ UNCHANGED <<notSdVars, sdChan, sdTopics, sdQueues, sdReturned, sdGot, sdHandled,
                   sdCur, sdCbs, sdPermits, sdExec, sdPubs>>

\* processRequests, default case: one call of Next on the queue of band
\* sdBand.  An element ends the scan, and the callbacks that the map has for
\* its topic at this moment are looked up; without callbacks the loop goes
\* on.  Without an element the scan goes to the next band, and after the
\* last band the loop sleeps and selects again.
SdScan ==
    /\ sdPc = "scan"
    /\ IF sdQueues[sdBand] # <<>>
       THEN /\ sdQueues' = [sdQueues EXCEPT ![sdBand] = Tail(@)]
            /\ IF sdTopics = <<>>
               THEN /\ sdPc' = "select"
                    /\ sdHandled' = sdHandled \cup {Head(sdQueues[sdBand])}
                    /\ UNCHANGED <<sdCur, sdCbs>>
               ELSE /\ sdPc' = "dispatch"
                    /\ sdCur' = Head(sdQueues[sdBand])
                    /\ sdCbs' = sdTopics
                    /\ UNCHANGED sdHandled
            /\ UNCHANGED sdBand
       ELSE /\ IF sdBand > PriorityLow
               THEN sdBand' = sdBand - 1 /\ UNCHANGED sdPc
               ELSE sdPc' = "select" /\ UNCHANGED sdBand
            /\ UNCHANGED <<sdQueues, sdCur, sdCbs, sdHandled>>
    /\ UNCHANGED <<notSdVars, sdChan, sdTopics, sdReturned, sdGot, sdPermits, sdExec, sdPubs>>

\* processRequests, the loop over the callbacks: eb.max.Acquire(1), which
\* waits for a free permit, then go eb.execute; after the last callback the
\* loop selects again
SdDispatch ==
    /\ sdPc = "dispatch"
    /\ sdPermits > 0
    /\ sdPermits' = sdPermits - 1
    /\ sdExec' = sdExec + 1
    /\ sdGot' = [sdGot EXCEPT ![Head(sdCbs)] = @ \cup {sdCur.n}]
    /\ sdCbs' = Tail(sdCbs)
    /\ IF Tail(sdCbs) = <<>>
       THEN /\ sdPc' = "select"
            /\ sdHandled' = sdHandled \cup {sdCur}
       ELSE UNCHANGED <<sdPc, sdHandled>>
    /\ UNCHANGED <<notSdVars, sdChan, sdTopics, sdQueues, sdReturned, sdBand, sdCur, sdPubs>>

\* execute: the callback returns, or never does; the deferred Release(1)
\* runs when it returns
SdExecute ==
    /\ sdExec > 0
    /\ sdExec' = sdExec - 1
    /\ sdPermits' = sdPermits + 1
    /\ UNCHANGED <<notSdVars, sdChan, sdTopics, sdQueues, sdPc, sdReturned, sdGot, sdHandled,
                   sdBand, sdCur, sdCbs, sdPubs>>

SdInit ==
    /\ PoolStart
    /\ HdStart
    /\ SdStart
    /\ DcStart
    /\ IdStart
    /\ RotStart
    /\ DupStart
    /\ TimesStart
    /\ BackoffStart
    /\ SqStart
    /\ enPassive = FALSE
    /\ enMaxDNS = MaxDNSQ
    /\ EnumStart
    /\ DomStart
    /\ domSrcs = MaxSrcs
    /\ domHasDns = TRUE
    /\ WcStart
    /\ semSize = MaxSem
    /\ SemStart
    /\ busMax = MaxBusSem
    /\ BusStart
    /\ FilterStart
    /\ filterMaxSize = MaxFilterSize
    /\ DnsStart
    /\ ResStart

SdNext ==
    \/ \E fn \in SdCallbacks : SdSubscribe(fn)
    \/ \E priority \in Priorities : SdPublish(priority)
    \/ SdSelectSubscribe
    \/ SdSelectDefault
    \/ SdScan
    \/ SdDispatch
    \/ SdExecute

SdSpec == SdInit /\ [][SdNext]_vars

\* C39: when the dispatcher has started the callbacks for a publication it
\* took from its queue, it has started every callback whose Subscribe call
\* had returned before the publication was published.
C39_SubscribersReceive ==
    \A p \in sdHandled : \A fn \in p.owed : p.n \in sdGot[fn]

-----------------------------------------------------------------------------
\* Collection.HostedDomains and investigateAddr

\* the domains that SubdomainToDomain gives; "" when it finds none
HdDomains == {"", "ex.com", "ex.org"}

\* close(c.Output): a second close panics
CloseOutput ==
    /\ hdCloses' = hdCloses + 1
    /\ hdPanic' = (hdCloses > 0)

\* c.Output <- value: a send after a close panics
SendOutput ==
    /\ hdSent' = hdSent + 1
    /\ hdLate' = (hdCloses > 0)
    /\ hdPanic' = (hdCloses > 0)

\* the function given to time.AfterFunc, when Config.Timeout is above 0:
\* it closes Output
HdTimerFires ==
    /\ ~hdPanic
    /\ hdMethod = "HostedDomains"
    /\ hdTimeout /\ ~hdFired
    /\ hdFired' = TRUE
    /\ CloseOutput
    /\ UNCHANGED <<notHdVars, hdMethod, hdTimeout, hdActive, hdLate, hdMain, hdWorker, hdFilter, hdSent>>

\* investigateAddr, the reverse lookup: with an answer whose domain is not
\* empty and not a duplicate, an Output is sent; then the call returns
\* unless Config.Active is set
HdReverse(a) ==
    /\ ~hdPanic
    /\ hdWorker[a] = "reverse"
    /\ hdWorker' = [hdWorker EXCEPT ![a] = IF hdActive THEN "cert" ELSE "done"]
    /\ \E ok \in BOOLEAN, d \in HdDomains :
         IF ok /\ d # ""
         THEN /\ hdFilter' = hdFilter \cup {d}
              /\ IF d \notin hdFilter
                 THEN SendOutput
                 ELSE UNCHANGED <<hdSent, hdLate, hdPanic>>
         ELSE UNCHANGED <<hdFilter, hdSent, hdLate, hdPanic>>
    /\ UNCHANGED <<notHdVars, hdMethod, hdTimeout, hdActive, hdFired, hdCloses, hdMain>>

\* investigateAddr, the names of the certificate: for a name whose domain
\* is not a duplicate an Output is sent; here the certificate has one name
\* or none
HdCert(a) ==
    /\ ~hdPanic
    /\ hdWorker[a] = "cert"
    /\ hdWorker' = [hdWorker EXCEPT ![a] = "done"]
    /\ \E named \in BOOLEAN, d \in HdDomains :
         IF named
         THEN /\ hdFilter' = hdFilter \cup {d}
              /\ IF d \notin hdFilter
                 THEN SendOutput
                 ELSE UNCHANGED <<hdSent, hdLate, hdPanic>>
         ELSE UNCHANGED <<hdFilter, hdSent, hdLate, hdPanic>>
    /\ UNCHANGED <<notHdVars, hdMethod, hdTimeout, hdActive, hdFired, hdCloses, hdMain>>

\* HostedDomains, c.wg.Wait(): every investigateAddr has returned
HdWait ==
    /\ ~hdPanic
    /\ hdMain = "wait"
    /\ \A a \in HdAddrs : hdWorker[a] = "done"
    /\ hdMain' = "sleep"
    /\ UNCHANGED <<notHdVars, hdMethod, hdTimeout, hdActive, hdFired, hdCloses, hdLate, hdPanic,
                   hdWorker, hdFilter, hdSent>>

\* HostedDomains, after the sleep of 5 s: close(c.Output) and return
HdReturn ==
    /\ ~hdPanic
    /\ hdMain = "sleep"
    /\ hdMain' = "returned"
    /\ CloseOutput
    /\ UNCHANGED <<notHdVars, hdMethod, hdTimeout, hdActive, hdFired, hdLate, hdWorker, hdFilter,
                   hdSent>>

\* ReverseWhois, collect: the callback of the topic NewWhoisTopic, for a
\* request with one new domain; a domain the local filter has not seen is
\* sent on Output. The event bus runs it in a goroutine of its own, which
\* the deferred Unsubscribe does not stop
Collect ==
    /\ ~hdPanic
    /\ hdMethod = "ReverseWhois"
    /\ \E d \in HdDomains \ hdFilter :
         /\ hdFilter' = hdFilter \cup {d}
         /\ SendOutput
    /\ UNCHANGED <<notHdVars, hdMethod, hdTimeout, hdActive, hdFired, hdCloses, hdMain, hdWorker>>

\* ReverseWhois after its loop, which ends when Done was called or nothing
\* was active for 10 s: close(c.Output) and return
ReverseWhois ==
    /\ ~hdPanic
    /\ hdMain = "loop"
    /\ hdMain' = "returned"
    /\ CloseOutput
    /\ UNCHANGED <<notHdVars, hdMethod, hdTimeout, hdActive, hdFired, hdLate, hdWorker, hdFilter,
                   hdSent>>

HdInit ==
    /\ PoolStart
    /\ hdMethod \in {"HostedDomains", "ReverseWhois"}
    /\ hdTimeout \in BOOLEAN
    /\ hdActive \in BOOLEAN
    /\ IF hdMethod = "HostedDomains" THEN HdFresh ELSE WhoisFresh
    /\ SdStart
    /\ DcStart
    /\ IdStart
    /\ RotStart
    /\ DupStart
    /\ TimesStart
    /\ BackoffStart
    /\ SqStart
    /\ enPassive = FALSE
    /\ enMaxDNS = MaxDNSQ
    /\ EnumStart
    /\ DomStart
    /\ domSrcs = MaxSrcs
    /\ domHasDns = TRUE
    /\ WcStart
    /\ semSize = MaxSem
    /\ SemStart
    /\ busMax = MaxBusSem
    /\ BusStart
    /\ FilterStart
    /\ filterMaxSize = MaxFilterSize
    /\ DnsStart
    /\ ResStart

HdNext ==
    \/ HdTimerFires
    \/ \E a \in HdAddrs : HdReverse(a)
    \/ \E a \in HdAddrs : HdCert(a)
    \/ HdWait
    \/ HdReturn
    \/ Collect
    \/ ReverseWhois

HdSpec == HdInit /\ [][HdNext]_vars

\* C40: the channel Output is closed at most once, exactly once when
\* HostedDomains has returned, and no value is sent on it after a close.
C40_OutputClosedOnce ==
    /\ hdCloses <= 1
    /\ hdMain = "returned" => hdCloses = 1
    /\ ~hdLate

====
